---- MODULE Spec2Model ----
(***************************************************************************)
(* Model of the video-analysis server: the /api/process handler of         *)
(* server.js (the Stage Orchestrator), the progress registry               *)
(* (activeSessions, sendProgress), the object aggregation of               *)
(* objectDetection.js (detectObjectsInFrame, detectObjectsInFrames), the   *)
(* sentiment wrappers and the demo engine (generateDemoResults).           *)
(*                                                                         *)
(* JavaScript runs the handler single-threaded: the code between two       *)
(* awaits is one atomic step, so every action below is one such step (a    *)
(* request's arrival, the return of an awaited call, a timer callback, a   *)
(* subscribe, a disconnect).                                               *)
(***************************************************************************)
EXTENDS Integers, Sequences, FiniteSets, TLC

\* ------------------------------------------------------------------ bounds
NReq == 2          \* request slots (Spec runs one request, in slot 1)
MaxClock == 1      \* Date.now() takes the values 0..MaxClock
MaxChan == 1       \* progress channels opened in one run of SpecProgress
MaxFrames == 2     \* frames extractFrames may return in Spec and SpecProgress
MaxDemoCalls == 4  \* direct calls of generateDemoResults in SpecDemo
MaxAggFrames == 4  \* frames given to detectObjectsInFrames in SpecAgg
MaxStride == 3     \* sampleRate values 1..MaxStride in SpecAgg
MaxRegChan == 2    \* progress channels opened in one run of SpecRegistry
MaxOver == 2       \* SpecStride extracts SampleThreshold-MaxOver..SampleThreshold+MaxOver frames

Reqs == 1..NReq
Null == -1

\* ---------------------------------------------------------- program constants
SampleThreshold == 30   \* framePaths.length <= 30 ? 1 : 2
ExtractFps == 1         \* extractFrames(tempVideoPath, framesDir, 1)
DetectFps == 1          \* const fps = 1; // We extract at 1 FPS
DemoDuration == 30      \* videoDuration: 30 of the demo result

\* ------------------------------------------------------------------ strings
\* A credential is the sequence of its characters, so that the prefix test of
\* the handler is computed and not assumed.
Str_demo == <<"d", "e", "m", "o">>
Str_test == <<"t", "e", "s", "t">>
Str_skA == <<"s", "k", "-", "A">>
Str_skB == <<"s", "k", "-", "B">>
Str_empty == <<>>
Str_xsk == <<"x", "s", "k", "-">>
Str_skPrefix == <<"s", "k", "-">>

\* the values of req.body.apiKey tried (an absent field behaves as '' in both
\* tests of the handler: it is not a sentinel, and !apiKey is true)
Credentials == {Str_demo, Str_test, Str_skA, Str_empty, Str_xsk}

\* variant: String.prototype.includes
startsWith_Includes(s, p) ==
    \E i \in 1..(Len(s) - Len(p) + 1) : SubSeq(s, i, i + Len(p) - 1) = p

\* String.prototype.startsWith
startsWith(s, p) == Len(s) >= Len(p) /\ SubSeq(s, 1, Len(p)) = p

\* String.prototype.toLowerCase on the object names of the model
toLowerCase(s) ==
    CASE s = "Person" -> "person"
      [] s = "LAPTOP" -> "laptop"
      [] OTHER -> s

SessionIds == {"s1"}
\* `session_${Date.now()}_${random}`: an id no subscriber knows beforehand
GeneratedSessionId(r) == IF r = 1 THEN "session_1" ELSE "session_2"

VARIABLES
    pc,              \* pc[r]: where request r's handler is suspended
    req,             \* req[r]: the request (file, body fields)
    env,             \* process.env.OPENAI_API_KEY
    now,             \* Date.now()
    uploads,         \* uploaded files that exist under uploads/
    tmpDirs,         \* working directories that exist under ./tmp
    tempVideoPath,   \* tempVideoPath[r] (Null until assigned)
    tmpDir,          \* tmpDir[r] (Null until assigned)
    local,           \* local[r]: the handler's other local constants
    agg,             \* agg[r]: the running detectObjectsInFrames call
    response,        \* response[r]: what was sent to the caller
    trace,           \* trace[r]: what the handler did, in the order of the code:
                     \*   progress updates, collaborator calls, response, cleanup
    svcFailed,       \* svcFailed[r]: functions whose external call failed
    activeSessions,  \* the Map sessionId -> channel
    chans,           \* chans[c]: the channels opened so far
    demoOut          \* demoOut[i]: results of direct generateDemoResults calls

vars == <<pc, req, env, now, uploads, tmpDirs, tempVideoPath, tmpDir, local, agg,
          response, trace, svcFailed, activeSessions, chans, demoOut>>


\* -------------------------------------------------------------- small helpers
RECURSIVE SumSeq(_)
SumSeq(s) == IF s = <<>> THEN 0 ELSE Head(s) + SumSeq(Tail(s))

RECURSIVE Gcd(_, _)
Gcd(a, b) == IF b = 0 THEN a ELSE Gcd(b, a % b)

\* variant: the quotient of the ordinal itself, not of the ordinal less one
Frac_OffByOne(n, d) == LET g == Gcd(n + 1, d) IN <<(n + 1) \div g, d \div g>>

\* the number n/d (n >= 0, d > 0) as a reduced fraction
Frac(n, d) == LET g == Gcd(n, d) IN <<n \div g, d \div g>>

\* Math.round(n/d) for n >= 0, d > 0: halves round up
RoundDiv(n, d) == (2 * n + d) \div (2 * d)

IsPrefix(s, t) == Len(s) <= Len(t) /\ SubSeq(t, 1, Len(s)) = s

\* Array.prototype.indexOf (0-based, -1 when absent)
indexOf(seq, x) ==
    IF \E k \in 1..Len(seq) : seq[k] = x
    THEN (CHOOSE k \in 1..Len(seq) : seq[k] = x /\ \A j \in 1..(k - 1) : seq[j] # x) - 1
    ELSE -1

\* ------------------------------------------------------------- frame detection
\* Units: a confidence is in hundredths (0..100), an appearance percentage in
\* tenths of a percent (0..1000), a timestamp is a reduced fraction of seconds.
\* the i-th file getFilesInDir returns for the frames directory (distinct paths)
FramePath(k) == 100 + k
FramePathsOf(n) == [k \in 1..n |-> FramePath(k)]

Det(n, c, x) == [name |-> n, confidence |-> c, context |-> x]

\* answers of the vision service for one frame: what the "objects" key holds
\* once the content is parsed. The service may leave a detection's name out.
DetectAnswers ==
    { <<>>,
      <<Det("Person", 90, "c1")>>,
      <<Det("person", 100, "c1"), Det("laptop", 51, "c2")>>,
      <<Det("LAPTOP", 60, "c2"), Det("laptop", 75, "c3")>>,
      <<[confidence |-> 50, context |-> "c1"]>>,
      <<Det("constructor", 50, "c1")>> }

\* what one openai.chat.completions.create call inside detectObjectsInFrame does
DetectOutcomes ==
    {[kind |-> "apiError"], [kind |-> "parseError"]}
        \cup {[kind |-> "ok", objects |-> a] : a \in DetectAnswers}

\* detectObjectsInFrame, from the await on: the value the function returns
detectObjectsInFrame(o) == IF o.kind = "ok" THEN o.objects ELSE <<>>

\* framePaths.filter((_, index) => index % sampleRate === 0)
RECURSIVE filterFrames(_, _, _)
filterFrames(framePaths, sampleRate, index) ==
    IF index >= Len(framePaths) THEN <<>>
    ELSE (IF index % sampleRate = 0 THEN <<framePaths[index + 1]>> ELSE <<>>)
             \o filterFrames(framePaths, sampleRate, index + 1)

\* variant: the frames whose 1-based ordinal is a multiple of sampleRate
sampledFramesOf_Offset(framePaths, sampleRate) ==
    [j \in 1..(Len(framePaths) \div sampleRate) |-> framePaths[j * sampleRate]]

\* framePaths.filter((_, index) => index % sampleRate === 0), line 85
sampledFramesOf(framePaths, sampleRate) == filterFrames(framePaths, sampleRate, 0)

\* keys every JavaScript object inherits: objectMap[name] is truthy for them
\* although nothing was stored
InheritedKeys == {"constructor", "__proto__"}

\* obj.name.toLowerCase() throws on a missing name; objectMap[objName].frames is
\* undefined for an inherited key, and .push on it throws
GroupingThrows(obj) ==
    "name" \notin DOMAIN obj \/ toLowerCase(obj.name) \in InheritedKeys

\* all (frame, detection) pairs in forEach order
RECURSIVE flattenDetections(_)
flattenDetections(detectionsByFrame) ==
    IF detectionsByFrame = <<>> THEN <<>>
    ELSE LET f == Head(detectionsByFrame)
         IN [k \in 1..Len(f.objects) |->
                [frame_id |-> f.frame_id, timestamp |-> f.timestamp, obj |-> f.objects[k]]]
            \o flattenDetections(Tail(detectionsByFrame))

\* objectMap after the two nested forEach loops: the groups in insertion order
RECURSIVE groupObjects(_, _)
groupObjects(pairs, objectMap) ==
    IF pairs = <<>> THEN objectMap
    ELSE LET p == Head(pairs)
             objName == toLowerCase(p.obj.name)
             entry == [frame_id |-> p.frame_id, timestamp |-> p.timestamp,
                       confidence |-> p.obj.confidence, context |-> p.obj.context]
             known == \E k \in 1..Len(objectMap) : objectMap[k].name = objName
             withKey == IF known THEN objectMap
                        ELSE Append(objectMap,
                                    [name |-> objName, frames |-> <<>>, confidences |-> <<>>])
             pushed == [k \in 1..Len(withKey) |->
                          IF withKey[k].name = objName
                          THEN [withKey[k] EXCEPT
                                   !.frames = Append(@, entry),
                                   !.confidences = Append(@, p.obj.confidence)]
                          ELSE withKey[k]]
         IN groupObjects(Tail(pairs), pushed)

\* Math.round((frames.length / framePaths.length) * 100 * 10) / 10, in tenths
appearance_percentage(nFrames, nAll) == RoundDiv(nFrames * 1000, nAll)

\* variant: rounded to one decimal instead of two
avg_confidence_OneDecimal(confidences) ==
    10 * RoundDiv(SumSeq(confidences), 10 * Len(confidences))

\* Math.round(avg * 100) / 100 with avg the mean of the confidences, in hundredths
avg_confidence(confidences) == RoundDiv(SumSeq(confidences), Len(confidences))

summarise(obj, nAll) ==
    [name |-> obj.name,
     appearance_percentage |-> appearance_percentage(Len(obj.frames), nAll),
     avg_confidence |-> avg_confidence(obj.confidences),
     frames |-> obj.frames]

\* objects_detected.sort((a, b) => b.appearance_percentage - a.appearance_percentage):
\* a stable sort, most frequent first
RECURSIVE insertSorted(_, _)
insertSorted(sorted, x) ==
    IF sorted = <<>> THEN <<x>>
    ELSE IF Head(sorted).appearance_percentage >= x.appearance_percentage
         THEN <<Head(sorted)>> \o insertSorted(Tail(sorted), x)
         ELSE <<x>> \o sorted

\* variant: the list is returned in the order the names were first seen
sortObjects_Unsorted(list) == list

RECURSIVE sortObjects(_)
sortObjects(list) ==
    IF list = <<>> THEN <<>>
    ELSE insertSorted(sortObjects(SubSeq(list, 1, Len(list) - 1)), list[Len(list)])

\* the part of detectObjectsInFrames after the loop (lines 106-150)
aggregateDetections(detectionsByFrame, framePaths) ==
    LET objectMap == groupObjects(flattenDetections(detectionsByFrame), <<>>)
    IN sortObjects([k \in 1..Len(objectMap) |-> summarise(objectMap[k], Len(framePaths))])

aggregationThrows(detectionsByFrame) ==
    LET pairs == flattenDetections(detectionsByFrame)
    IN \E k \in 1..Len(pairs) : GroupingThrows(pairs[k].obj)


\* ------------------------------------------------ detectObjectsInFrames as a run
\* agg[r] is one call of detectObjectsInFrames: its arguments, its locals, where
\* it stands, and (calls, failed) what it did so far.
AggIdle ==
    [status |-> "idle", framePaths |-> <<>>, sampleRate |-> 1, fps |-> 1,
     sampledFrames |-> <<>>, i |-> 0, detectionsByFrame |-> <<>>,
     calls |-> <<>>, failed |-> {}, result |-> <<>>]

\* variant: the position in the sampled list instead of in the full list
frameNumberOf_SampleIndex(a) == a.i + 1

\* const frameNumber = framePaths.indexOf(framePath) + 1, line 91
frameNumberOf(a) == indexOf(a.framePaths, a.sampledFrames[a.i + 1]) + 1

\* The loop head (line 89) up to the next await or the end of the function.
\* detectObjectsInFrame reads the frame (imageToBase64, line 17) before its try
\* block: a failed read leaves both functions as an exception.
aggLoop(a, readOk) ==
    IF a.i < Len(a.sampledFrames)
    THEN LET called == [a EXCEPT !.calls = Append(@, a.sampledFrames[a.i + 1])]
         IN IF readOk
            THEN [called EXCEPT !.status = "awaiting"]
            ELSE [called EXCEPT !.status = "thrown", !.failed = @ \cup {frameNumberOf(a)}]
    ELSE IF aggregationThrows(a.detectionsByFrame)
         THEN [a EXCEPT !.status = "thrown"]
         ELSE [a EXCEPT !.status = "returned",
                        !.result = aggregateDetections(a.detectionsByFrame, a.framePaths)]

\* the call detectObjectsInFrames(framePaths, sampleRate, fps), to its first await
aggStart(framePaths, sampleRate, fps, readOk) ==
    aggLoop([AggIdle EXCEPT !.framePaths = framePaths, !.sampleRate = sampleRate,
                            !.fps = fps,
                            !.sampledFrames = sampledFramesOf(framePaths, sampleRate)],
            readOk)

\* the vision call of the current frame has ended with outcome o (lines 95-104)
aggResume(a, o, readOk) ==
    LET frameNumber == frameNumberOf(a)
        pushed == [a EXCEPT
                     !.detectionsByFrame =
                         Append(@, [frame_id |-> frameNumber,
                                    frameFile |-> a.sampledFrames[a.i + 1],
                                    timestamp |-> Frac(frameNumber - 1, a.fps),
                                    objects |-> detectObjectsInFrame(o)]),
                     !.failed = IF o.kind = "ok" THEN @ ELSE @ \cup {frameNumber},
                     !.i = @ + 1]
    IN aggLoop(pushed, readOk)


\* ------------------------------------------------------------ transcription
Seg(k) == [id |-> k, start |-> 5 * k, end |-> 5 * k + 5,
           text |-> IF k = 0 THEN "t0" ELSE "t1"]

\* bodies the Whisper API may answer with (language and segments are optional)
TranscriptionResponses ==
    { [text |-> "t0 t1", language |-> "fr", segments |-> <<Seg(0), Seg(1)>>],
      [text |-> "t0"] }

\* transcribeVideo's return value for an answered call (lines 33-37)
transcribeVideo(resp) ==
    [full_text |-> resp.text,
     language |-> IF "language" \in DOMAIN resp THEN resp.language ELSE "en",
     segments |-> IF "segments" \in DOMAIN resp THEN resp.segments ELSE <<>>]

\* ----------------------------------------------------------------- sentiment
SentRec(k, s, m) == [segment_id |-> k, sentiment |-> s, mood_keywords |-> m]

\* "segments" arrays the sentiment service may answer with: complete, with a
\* record missing and one duplicated, with an extra record and reordered, or
\* none at all
SegmentSentimentAnswers ==
    { <<SentRec(0, "positive", <<"warm">>), SentRec(1, "negative", <<"tense">>)>>,
      <<SentRec(1, "negative", <<"tense">>), SentRec(1, "positive", <<"warm">>)>>,
      <<SentRec(7, "positive", <<"warm">>), SentRec(1, "negative", <<"tense">>),
        SentRec(0, "negative", <<"flat">>)>>,
      <<>> }

SentimentOutcomes(answers) ==
    {[kind |-> "apiError"]} \cup {[kind |-> "ok", data |-> a] : a \in answers}

\* variant: a failed call gives no record at all
analyzeSegmentSentiments_NoFallback(segments, o) ==
    IF o.kind = "ok" THEN o.data ELSE <<>>

\* analyzeSegmentSentiments (lines 302-334): the answer, or one neutral record
\* per segment when the call failed
analyzeSegmentSentiments(segments, o) ==
    IF o.kind = "ok" THEN o.data
    ELSE [k \in 1..Len(segments) |-> SentRec(segments[k].id, "neutral", <<"unknown">>)]

OverallSentimentAnswers ==
    { [overall_sentiment |-> "positive", mood_keywords |-> <<"calm">>,
       confidence |-> 88, short_summary |-> "calm talk"] }

\* variant: a failed call gives a record without content
analyzeSentiment_Blank(o) ==
    IF o.kind = "ok" THEN o.data
    ELSE [overall_sentiment |-> "", mood_keywords |-> <<>>, confidence |-> 0,
          short_summary |-> ""]

\* analyzeSentiment (lines 238-270)
analyzeSentiment(o) ==
    IF o.kind = "ok" THEN o.data
    ELSE [overall_sentiment |-> "neutral", mood_keywords |-> <<"unknown">>,
          confidence |-> 0, short_summary |-> "Error analyzing sentiment: apiError"]

\* variant: the last matching record instead of the first
findSentiment_Last(segmentSentiments, id) ==
    IF \E k \in 1..Len(segmentSentiments) : segmentSentiments[k].segment_id = id
    THEN segmentSentiments[CHOOSE k \in 1..Len(segmentSentiments) :
                              /\ segmentSentiments[k].segment_id = id
                              /\ \A j \in (k + 1)..Len(segmentSentiments) :
                                     segmentSentiments[j].segment_id # id]
    ELSE [sentiment |-> "neutral", mood_keywords |-> <<"unknown">>]

\* segmentSentiments.find(s => s.segment_id === segment.id) || {neutral, unknown}
findSentiment(segmentSentiments, id) ==
    IF \E k \in 1..Len(segmentSentiments) : segmentSentiments[k].segment_id = id
    THEN segmentSentiments[CHOOSE k \in 1..Len(segmentSentiments) :
                              /\ segmentSentiments[k].segment_id = id
                              /\ \A j \in 1..(k - 1) : segmentSentiments[j].segment_id # id]
    ELSE [sentiment |-> "neutral", mood_keywords |-> <<"unknown">>]

\* variant: only the segments that have a sentiment record are kept
enrichSegments_Matched(segments, segmentSentiments) ==
    LET kept == SelectSeq(segments,
                          LAMBDA g : \E k \in 1..Len(segmentSentiments) :
                                         segmentSentiments[k].segment_id = g.id)
    IN [k \in 1..Len(kept) |->
           LET sentimentData == findSentiment(segmentSentiments, kept[k].id)
           IN [id |-> kept[k].id, start |-> kept[k].start, end |-> kept[k].end,
               text |-> kept[k].text, speaker |-> "creator",
               sentiment |-> sentimentData.sentiment,
               mood_keywords |-> sentimentData.mood_keywords]]

\* the map at server.js lines 195-210
enrichSegments(segments, segmentSentiments) ==
    [k \in 1..Len(segments) |->
        LET sentimentData == findSentiment(segmentSentiments, segments[k].id)
        IN [id |-> segments[k].id, start |-> segments[k].start, end |-> segments[k].end,
            text |-> segments[k].text, speaker |-> "creator",
            sentiment |-> sentimentData.sentiment,
            mood_keywords |-> sentimentData.mood_keywords]]

\* ------------------------------------------------------------- QA generation
QAAnswers ==
    { <<[question |-> "q", answer |-> "a",
         relevantSnippets |-> <<[segment_id |-> 0, text |-> "t0"]>>]>> }

\* generateQAPairs: the pairs the service answered, or one fallback pair
generateQAPairs(o) ==
    IF o.kind = "ok" THEN o.data
    ELSE <<[question |-> "Error generating questions", answer |-> "apiError",
            relevantSnippets |-> <<[segment_id |-> 0, text |-> ""]>>]>>

\* --------------------------------------------------------------- demo engine
demoSegments ==
    << [id |-> 0, start |-> 0, end |-> 52, text |-> "Welcome", speaker |-> "creator",
        sentiment |-> "positive", mood_keywords |-> <<"welcoming", "engaging">>],
       [id |-> 1, start |-> 52, end |-> 104, text |-> "The content", speaker |-> "creator",
        sentiment |-> "positive", mood_keywords |-> <<"educational", "clear">>],
       [id |-> 2, start |-> 104, end |-> 178, text |-> "Throughout", speaker |-> "creator",
        sentiment |-> "neutral", mood_keywords |-> <<"informative", "descriptive">>],
       [id |-> 3, start |-> 178, end |-> 225, text |-> "This is a sample",
        speaker |-> "creator", sentiment |-> "neutral",
        mood_keywords |-> <<"demonstrative", "explanatory">>] >>

DemoFrame(f, t, c, x) ==
    [frame_id |-> f, timestamp |-> Frac(t, 1), confidence |-> c, context |-> x]

demoObjectsDetected ==
    << [name |-> "person", appearance_percentage |-> 1000, avg_confidence |-> 97,
        frames |-> <<DemoFrame(1, 0, 98, "center"), DemoFrame(5, 4, 97, "gesturing"),
                     DemoFrame(10, 9, 96, "sitting")>>],
       [name |-> "laptop", appearance_percentage |-> 533, avg_confidence |-> 94,
        frames |-> <<DemoFrame(1, 0, 95, "on desk"), DemoFrame(5, 4, 93, "visible"),
                     DemoFrame(10, 9, 94, "open")>>],
       [name |-> "desk", appearance_percentage |-> 667, avg_confidence |-> 91,
        frames |-> <<DemoFrame(1, 0, 92, "foreground"), DemoFrame(5, 4, 90, "surface")>>],
       [name |-> "coffee cup", appearance_percentage |-> 200, avg_confidence |-> 86,
        frames |-> <<DemoFrame(10, 9, 86, "next to laptop")>>] >>

demoSentiment ==
    [overall_sentiment |-> "positive",
     mood_keywords |-> <<"educational", "engaging", "informative">>,
     confidence |-> 88, short_summary |-> "educational and engaging"]

demoQAPairs ==
    << [question |-> "main topic", answer |-> "concepts",
        relevantSnippets |-> <<[segment_id |-> 0, text |-> "In this video"],
                               [segment_id |-> 1, text |-> "The content"]>>],
       [question |-> "how presented", answer |-> "visual and spoken",
        relevantSnippets |-> <<[segment_id |-> 2, text |-> "you'll notice"]>>],
       [question |-> "purpose", answer |-> "demonstrate",
        relevantSnippets |-> <<[segment_id |-> 0, text |-> "In this video"],
                               [segment_id |-> 3, text |-> "This is a sample"]>>] >>

\* variant: the result does not carry the demo flag
generateDemoResults_NoFlag(videoFile) ==
    [metadata |-> [videoFile |-> videoFile, videoDuration |-> DemoDuration,
                   processedAt |-> now, processingTime |-> "2.5s", demoMode |-> FALSE,
                   note |-> "This is simulated data - no API calls were made"],
     transcript |-> [full_text |-> "Welcome to this demonstration video",
                     language |-> "en", segments |-> demoSegments],
     sentiment |-> demoSentiment,
     objects_detected |-> demoObjectsDetected,
     qa_pairs |-> demoQAPairs]

\* variant: the reported duration depends on the time of the call
generateDemoResults_Clock(videoFile) ==
    [metadata |-> [videoFile |-> videoFile, videoDuration |-> DemoDuration + now,
                   processedAt |-> now, processingTime |-> "2.5s", demoMode |-> TRUE,
                   note |-> "This is simulated data - no API calls were made"],
     transcript |-> [full_text |-> "Welcome to this demonstration video",
                     language |-> "en", segments |-> demoSegments],
     sentiment |-> demoSentiment,
     objects_detected |-> demoObjectsDetected,
     qa_pairs |-> demoQAPairs]

\* generateDemoResults(videoFile): processedAt is new Date() at the call
generateDemoResults(videoFile) ==
    [metadata |-> [videoFile |-> videoFile, videoDuration |-> DemoDuration,
                   processedAt |-> now, processingTime |-> "2.5s", demoMode |-> TRUE,
                   note |-> "This is simulated data - no API calls were made"],
     transcript |-> [full_text |-> "Welcome to this demonstration video",
                     language |-> "en", segments |-> demoSegments],
     sentiment |-> demoSentiment,
     objects_detected |-> demoObjectsDetected,
     qa_pairs |-> demoQAPairs]


\* ---------------------------------------------------------- progress registry
EmptyMap == [k \in {} |-> 0]
\* variant: an id that is already registered keeps its channel
MapSet_KeepFirst(m, key, v) ==
    [k \in DOMAIN m \cup {key} |-> IF k \in DOMAIN m THEN m[k] ELSE v]

MapSet(m, key, v) == [k \in DOMAIN m \cup {key} |-> IF k = key THEN v ELSE m[k]]
MapDelete(m, key) == [k \in DOMAIN m \ {key} |-> m[k]]

\* trace entries: T for a call, a response or a cleanup, P for one sendProgress
\* call (the message text is left out)
T(ev, what) == [ev |-> ev, what |-> what, step |-> -1, progress |-> -1]
\* variant: the percentage is reported in whole tens
P_Tens(step, progress) ==
    [ev |-> "progress", what |-> "", step |-> step, progress |-> 10 * (progress \div 10)]

P(step, progress) == [ev |-> "progress", what |-> "", step |-> step, progress |-> progress]

\* how a credential is written in the trace
KeyName(apiKey) ==
    CASE apiKey = Str_skA -> "sk-A"
      [] apiKey = Str_skB -> "sk-B"
      [] apiKey = Str_empty -> ""
      [] OTHER -> "other"

\* new OpenAI({ apiKey: process.env.OPENAI_API_KEY }): the first statement of
\* transcribeVideo, analyzeSegmentSentiments, detectObjectsInFrame and
\* analyzeSentiment reads the credential the process holds at that moment
K == T("apiKey", KeyName(env))

IsProgress(e) == e.ev = "progress"

\* the JSON line sendProgress writes for entry e
progressMessage(e) == [type |-> "progress", step |-> e.step, progress |-> e.progress]
connectedMessage == [type |-> "connected", step |-> -1, progress |-> -1]

\* variant: the update is written to every channel that is still open
sendProgress_Broadcast(ch, sessions, sessionId, e) ==
    [c \in DOMAIN ch |->
        IF ch[c].open THEN [ch[c] EXCEPT !.log = Append(@, progressMessage(e))] ELSE ch[c]]

\* variant: the update is written twice to the registered channel
sendProgress_Twice(ch, sessions, sessionId, e) ==
    IF sessionId \in DOMAIN sessions
    THEN [ch EXCEPT ![sessions[sessionId]].log =
             Append(Append(@, progressMessage(e)), progressMessage(e))]
    ELSE ch

\* sendProgress (lines 78-83): written to the registered channel, if any
sendProgress(ch, sessions, sessionId, e) ==
    IF sessionId \in DOMAIN sessions
    THEN [ch EXCEPT ![sessions[sessionId]].log = Append(@, progressMessage(e))]
    ELSE ch

\* the sendProgress calls among the entries of one step, in order
RECURSIVE sendProgressAll(_, _, _, _)
sendProgressAll(ch, sessions, sessionId, entries) ==
    IF entries = <<>> THEN ch
    ELSE sendProgressAll(IF IsProgress(Head(entries))
                         THEN sendProgress(ch, sessions, sessionId, Head(entries))
                         ELSE ch,
                         sessions, sessionId, Tail(entries))

\* variant: the channel is registered but the connection message is not written
Subscribe_NoGreeting(sessionId) ==
    /\ activeSessions' = MapSet(activeSessions, sessionId, Len(chans) + 1)
    /\ chans' = Append(chans, [sessionId |-> sessionId, open |-> TRUE, log |-> <<>>])
    /\ UNCHANGED <<pc, req, env, now, uploads, tmpDirs, tempVideoPath, tmpDir, local,
                   agg, response, trace, svcFailed, demoOut>>

\* app.get('/api/progress/:sessionId') (lines 58-69)
Subscribe(sessionId) ==
    /\ activeSessions' = MapSet(activeSessions, sessionId, Len(chans) + 1)
    /\ chans' = Append(chans, [sessionId |-> sessionId, open |-> TRUE,
                               log |-> <<connectedMessage>>])
    /\ UNCHANGED <<pc, req, env, now, uploads, tmpDirs, tempVideoPath, tmpDir, local,
                   agg, response, trace, svcFailed, demoOut>>

\* req.on('close') of channel c (lines 72-74)
Disconnect(c) ==
    /\ c \in 1..Len(chans)
    /\ chans[c].open
    /\ chans' = [chans EXCEPT ![c].open = FALSE]
    /\ activeSessions' = MapDelete(activeSessions, chans[c].sessionId)
    /\ UNCHANGED <<pc, req, env, now, uploads, tmpDirs, tempVideoPath, tmpDir, local,
                   agg, response, trace, svcFailed, demoOut>>

\* time passes
Tick ==
    /\ now' = now + 1
    /\ UNCHANGED <<pc, req, env, uploads, tmpDirs, tempVideoPath, tmpDir, local, agg,
                   response, trace, svcFailed, activeSessions, chans, demoOut>>

\* ------------------------------------------------------------------- requests
NoRequest ==
    [file |-> FALSE, mimetype |-> "", tooLarge |-> FALSE, apiKey |-> Str_empty,
     sessionId |-> "", demoMode |-> "", originalname |-> ""]

FileNames == {"a.mp4", "b.mp4"}

\* multipart submissions: with or without a file part, and the body fields
\* (sessionId and demoMode are "" when the field is absent)
Requests ==
    { q \in [file : BOOLEAN, mimetype : {"", "video/mp4", "video/avi"},
             tooLarge : BOOLEAN, apiKey : Credentials, sessionId : SessionIds \cup {""},
             demoMode : {"true", ""}, originalname : {"a.mp4", ""}] :
        /\ q.file => (q.mimetype # "" /\ q.originalname # "")
        /\ ~q.file => (q.mimetype = "" /\ q.originalname = "" /\ ~q.tooLarge)
        /\ q.tooLarge => q.mimetype = "video/mp4" }

NoResponse == [status |-> 0, code |-> "", body |-> [error |-> ""]]
NoSentiment ==
    [overall_sentiment |-> "", mood_keywords |-> <<>>, confidence |-> 0,
     short_summary |-> ""]

LocalInit ==
    [sessionId |-> "", apiKey |-> Str_empty, demoMode |-> FALSE, startTime |-> 0,
     timer |-> 0, duration |-> 0, framePaths |-> <<>>,
     transcriptionData |-> [full_text |-> "", language |-> "", segments |-> <<>>],
     segmentSentiments |-> <<>>, enrichedSegments |-> <<>>,
     objects_detected |-> <<>>, sentiment |-> NoSentiment,
     qaPairs |-> <<>>]

Init ==
    /\ pc = [r \in Reqs |-> "idle"]
    /\ req = [r \in Reqs |-> NoRequest]
    /\ env = Str_empty
    /\ now = 0
    /\ uploads = {}
    /\ tmpDirs = {}
    /\ tempVideoPath = [r \in Reqs |-> Null]
    /\ tmpDir = [r \in Reqs |-> Null]
    /\ local = [r \in Reqs |-> LocalInit]
    /\ agg = [r \in Reqs |-> AggIdle]
    /\ response = [r \in Reqs |-> NoResponse]
    /\ trace = [r \in Reqs |-> <<>>]
    /\ svcFailed = [r \in Reqs |-> {}]
    /\ activeSessions = EmptyMap
    /\ chans = <<>>
    /\ demoOut = <<>>

validationError(status, code, message) ==
    [status |-> status, code |-> code, body |-> [error |-> message]]

\* upload.single('video') (lines 26-38) and the error middleware (lines 280-288):
\* a file of another type or above the size limit never reaches the handler and
\* leaves nothing under uploads/; an accepted file is stored there.
Upload(r, q) ==
    /\ pc[r] = "idle"
    /\ req' = [req EXCEPT ![r] = q]
    /\ IF q.file /\ q.mimetype # "video/mp4"
       THEN /\ pc' = [pc EXCEPT ![r] = "done"]
            /\ response' = [response EXCEPT ![r] =
                   validationError(500, "500", "Only MP4 files are allowed")]
            /\ trace' = [trace EXCEPT ![r] = Append(@, T("respond", "500"))]
            /\ UNCHANGED uploads
       ELSE IF q.file /\ q.tooLarge
       THEN /\ pc' = [pc EXCEPT ![r] = "done"]
            /\ response' = [response EXCEPT ![r] =
                   validationError(400, "400", "File too large")]
            /\ trace' = [trace EXCEPT ![r] = Append(@, T("respond", "400"))]
            /\ UNCHANGED uploads
       ELSE /\ pc' = [pc EXCEPT ![r] = "handler"]
            /\ uploads' = IF q.file THEN uploads \cup {r} ELSE uploads
            /\ UNCHANGED <<response, trace>>
    /\ UNCHANGED <<env, now, tmpDirs, tempVideoPath, tmpDir, local, agg, svcFailed,
                   activeSessions, chans, demoOut>>

\* ------------------------------------------------------------ the handler's end
\* The finally block (lines 264-276) for the handler's tempVideoPath and tmpDir:
\* both removals share one try, so a removal that throws skips what follows it.
\* unlinkOk / rmOk: whether fs.unlinkSync / fs.rmSync succeed.
finallyBlock(tvp, td, files, dirs, unlinkOk, rmOk) ==
    LET doUnlink == tvp # Null /\ tvp \in files
        unlinkThrew == doUnlink /\ ~unlinkOk
        doRm == ~unlinkThrew /\ td # Null /\ td \in dirs
        rmThrew == doRm /\ ~rmOk
    IN [uploads |-> IF doUnlink /\ unlinkOk THEN files \ {tvp} ELSE files,
        tmpDirs |-> IF doRm /\ rmOk THEN dirs \ {td} ELSE dirs,
        trace |-> (IF doUnlink /\ unlinkOk THEN <<T("cleanup", "unlinkSync")>> ELSE <<>>)
                  \o (IF doRm /\ rmOk THEN <<T("cleanup", "cleanupTempDir")>> ELSE <<>>)
                  \o (IF unlinkThrew \/ rmThrew THEN <<T("cleanup", "cleanupError")>>
                      ELSE <<>>)]

\* variant: an update for an id without a channel raises an error
Log_NeedsChannel(r, sessionId, entries) ==
    /\ trace' = [trace EXCEPT ![r] =
           @ \o entries
             \o (IF sessionId \notin DOMAIN activeSessions
                     /\ \E i \in DOMAIN entries : IsProgress(entries[i])
                  THEN <<T("throw", "sendProgress")>> ELSE <<>>)]
    /\ chans' = sendProgressAll(chans, activeSessions, sessionId, entries)

\* One step of the handler that goes on: entries is what it did, in order.
Log(r, sessionId, entries) ==
    /\ trace' = [trace EXCEPT ![r] = @ \o entries]
    /\ chans' = sendProgressAll(chans, activeSessions, sessionId, entries)

\* variant: the handler cleans up and returns without sending a response
End_NoResponse(r, sessionId, entries, resp, unlinkOk, rmOk) ==
    LET f == finallyBlock(tempVideoPath[r], tmpDir[r], uploads, tmpDirs, unlinkOk, rmOk)
    IN /\ pc' = [pc EXCEPT ![r] = "returned"]
       /\ UNCHANGED response
       /\ uploads' = f.uploads
       /\ tmpDirs' = f.tmpDirs
       /\ Log(r, sessionId, entries \o f.trace)

\* The step that ends the handler: after entries the response is sent, then the
\* finally block runs.
End(r, sessionId, entries, resp, unlinkOk, rmOk) ==
    LET f == finallyBlock(tempVideoPath[r], tmpDir[r], uploads, tmpDirs, unlinkOk, rmOk)
    IN /\ pc' = [pc EXCEPT ![r] = "done"]
       /\ response' = [response EXCEPT ![r] = resp]
       /\ uploads' = f.uploads
       /\ tmpDirs' = f.tmpDirs
       /\ Log(r, sessionId, entries \o <<T("respond", resp.code)>> \o f.trace)

\* the catch block (lines 258-263): error.message || 'An error occurred ...'
errorResponse(message) ==
    [status |-> 500, code |-> "500",
     body |-> [error |-> IF message # "" THEN message
                         ELSE "An error occurred during processing"]]

okResponse(result) == [status |-> 200, code |-> "200", body |-> result]

\* the update the handler sends once the awaited call of fn has returned
completionUpdate(fn) ==
    CASE fn = "getVideoDuration" -> P(0, 10)
      [] fn = "extractAudio" -> P(1, 20)
      [] fn = "extractFrames" -> P(2, 30)
      [] fn = "transcribeVideo" -> P(3, 40)
      [] fn = "analyzeSegmentSentiments" -> P(3, 45)
      [] fn = "detectObjectsInFrames" -> P(4, 65)
      [] fn = "analyzeSentiment" -> P(5, 85)
      [] fn = "generateQAPairs" -> P(6, 95)

\* the update the handler sends before it calls fn
startUpdate(fn) ==
    CASE fn = "getVideoDuration" -> P(0, 5)
      [] fn = "extractAudio" -> P(1, 15)
      [] fn = "extractFrames" -> P(2, 25)
      [] fn = "transcribeVideo" -> P(3, 35)
      [] fn = "analyzeSegmentSentiments" -> P(3, 42)
      [] fn = "detectObjectsInFrames" -> P(4, 50)
      [] fn = "analyzeSentiment" -> P(5, 75)
      [] fn = "generateQAPairs" -> P(6, 90)

\* variant: the completion update is sent before the outcome of the call is known
Throw_AfterCompletion(r, fn, entries, unlinkOk, rmOk) ==
    End(r, local[r].sessionId, entries \o <<completionUpdate(fn), T("throw", fn)>>,
        errorResponse(fn), unlinkOk, rmOk)

\* variant: the catch block also reports completion to the progress channel
Throw_ThenProgress(r, fn, entries, unlinkOk, rmOk) ==
    End(r, local[r].sessionId, entries \o <<T("throw", fn), P(6, 100)>>,
        errorResponse(fn), unlinkOk, rmOk)

\* an awaited call of fn threw after the step did entries: catch, then finally
Throw(r, fn, entries, unlinkOk, rmOk) ==
    End(r, local[r].sessionId, entries \o <<T("throw", fn)>>, errorResponse(fn),
        unlinkOk, rmOk)

\* outcomes of the awaited calls
Failure == [kind |-> "error"]
Ok(d) == [kind |-> "ok", data |-> d]
ProbeOutcomes == {Failure, Ok(12)}
AudioOutcomes == {Failure, Ok(0)}
FramesOutcomes == {Failure} \cup {Ok(n) : n \in 0..MaxFrames}
TranscribeOutcomes == {Failure} \cup {Ok(t) : t \in TranscriptionResponses}
OverallSentimentOutcomes == {Failure} \cup {Ok(a) : a \in OverallSentimentAnswers}
QAOutcomes == {Failure} \cup {Ok(a) : a \in QAAnswers}
\* Spec tries one answer and the failure of the per-segment sentiment and of
\* the vision service; SpecAgg tries every answer of DetectOutcomes
SpecSegmentSentimentOutcomes ==
    {Failure, Ok(<<SentRec(1, "negative", <<"tense">>), SentRec(1, "positive", <<"warm">>)>>)}
SpecDetectOutcomes ==
    {[kind |-> "apiError"], [kind |-> "ok", objects |-> <<Det("Person", 90, "c1")>>]}

\* line 100
isDemoMode(q) == q.demoMode = "true" \/ q.apiKey = Str_demo \/ q.apiKey = Str_test

\* line 148, negated: apiKey && apiKey.startsWith('sk-')
validApiKey(apiKey) == apiKey # Str_empty /\ startsWith(apiKey, Str_skPrefix)

\* lines 94-96: no file part. tempVideoPath and tmpDir are still null in finally.
RejectNoFile(r) ==
    /\ pc' = [pc EXCEPT ![r] = "done"]
    /\ response' = [response EXCEPT ![r] =
           validationError(400, "400", "No video file uploaded")]
    /\ local' = [local EXCEPT ![r].startTime = now]
    /\ Log(r, "", <<T("respond", "400")>>)
    /\ UNCHANGED <<env, tmpDirs, tempVideoPath, tmpDir>>

\* lines 103-134: the first update, the six timers, the 3500 ms wait
StartDemo(r, loc) ==
    /\ pc' = [pc EXCEPT ![r] = "demoTimers"]
    /\ local' = [local EXCEPT ![r] = [loc EXCEPT !.timer = 1]]
    /\ Log(r, loc.sessionId, <<P(0, 5)>>)
    /\ UNCHANGED <<env, tmpDirs, tempVideoPath, tmpDir, response>>

\* variant: the credential is published and the working directory made before
\* the credential is looked at
RejectInvalidKey_AfterSetup(r, loc) ==
    /\ pc' = [pc EXCEPT ![r] = "done"]
    /\ response' = [response EXCEPT ![r] =
           validationError(400, "400", "Invalid OpenAI API key")]
    /\ local' = [local EXCEPT ![r] = loc]
    /\ Log(r, loc.sessionId, <<T("respond", "400")>>)
    /\ env' = loc.apiKey
    /\ tmpDirs' = tmpDirs \cup {now}
    /\ UNCHANGED <<tempVideoPath, tmpDir>>

\* lines 148-150: tempVideoPath and tmpDir are still null in finally
RejectInvalidKey(r, loc) ==
    /\ pc' = [pc EXCEPT ![r] = "done"]
    /\ response' = [response EXCEPT ![r] =
           validationError(400, "400", "Invalid OpenAI API key")]
    /\ local' = [local EXCEPT ![r] = loc]
    /\ Log(r, loc.sessionId, <<T("respond", "400")>>)
    /\ UNCHANGED <<env, tmpDirs, tempVideoPath, tmpDir>>

\* lines 153-163: the credential is published, the working directory made, the
\* first update sent and getVideoDuration called
StartReal(r, loc) ==
    /\ env' = loc.apiKey
    /\ tempVideoPath' = [tempVideoPath EXCEPT ![r] = r]
    /\ tmpDir' = [tmpDir EXCEPT ![r] = now]
    /\ tmpDirs' = tmpDirs \cup {now}
    /\ local' = [local EXCEPT ![r] = loc]
    /\ Log(r, loc.sessionId, <<P(0, 5), T("invoke", "getVideoDuration")>>)
    /\ pc' = [pc EXCEPT ![r] = "getVideoDuration"]
    /\ UNCHANGED response

\* The handler from its first line to its first await (lines 87-163).
HandlerStart(r) ==
    /\ pc[r] = "handler"
    /\ LET q == req[r]
           sessionId == IF q.sessionId # "" THEN q.sessionId ELSE GeneratedSessionId(r)
           loc == [local[r] EXCEPT !.startTime = now, !.apiKey = q.apiKey,
                                   !.sessionId = sessionId, !.demoMode = isDemoMode(q)]
       IN IF ~q.file THEN RejectNoFile(r)
          ELSE IF isDemoMode(q) THEN StartDemo(r, loc)
          ELSE IF ~validApiKey(q.apiKey) THEN RejectInvalidKey(r, loc)
          ELSE StartReal(r, loc)
    /\ UNCHANGED <<req, now, uploads, agg, svcFailed, activeSessions, demoOut>>

\* ------------------------------------------------------------ the real stages
\* getVideoDuration has settled (lines 163-171)
GetVideoDurationReturn(r, o, unlinkOk, rmOk) ==
    /\ pc[r] = "getVideoDuration"
    /\ IF o.kind = "ok"
       THEN /\ local' = [local EXCEPT ![r].duration = o.data]
            /\ tmpDirs' = tmpDirs \cup {tmpDir[r]}     \* extractAudio: ensureDir
            /\ Log(r, local[r].sessionId,
                   <<T("return", "getVideoDuration"), P(0, 10), P(1, 15),
                     T("invoke", "extractAudio")>>)
            /\ pc' = [pc EXCEPT ![r] = "extractAudio"]
            /\ UNCHANGED <<response, uploads, svcFailed>>
       ELSE /\ Throw(r, "getVideoDuration", <<>>, unlinkOk, rmOk)
            /\ svcFailed' = [svcFailed EXCEPT ![r] = @ \cup {"getVideoDuration"}]
            /\ UNCHANGED local
    /\ UNCHANGED <<req, env, now, tempVideoPath, tmpDir, agg, activeSessions, demoOut>>

\* extractAudio has settled (lines 171-178)
ExtractAudioReturn(r, o, unlinkOk, rmOk) ==
    /\ pc[r] = "extractAudio"
    /\ IF o.kind = "ok"
       THEN /\ tmpDirs' = tmpDirs \cup {tmpDir[r]}     \* extractFrames: ensureDir
            /\ Log(r, local[r].sessionId,
                   <<T("return", "extractAudio"), P(1, 20), P(2, 25),
                     T("invoke", "extractFrames")>>)
            /\ pc' = [pc EXCEPT ![r] = "extractFrames"]
            /\ UNCHANGED <<response, uploads, svcFailed>>
       ELSE /\ Throw(r, "extractAudio", <<>>, unlinkOk, rmOk)
            /\ svcFailed' = [svcFailed EXCEPT ![r] = @ \cup {"extractAudio"}]
    /\ UNCHANGED <<req, env, now, tempVideoPath, tmpDir, local, agg, activeSessions,
                   demoOut>>

\* extractFrames has settled (lines 178-185)
ExtractFramesReturn(r, o, unlinkOk, rmOk) ==
    /\ pc[r] = "extractFrames"
    /\ IF o.kind = "ok"
       THEN /\ local' = [local EXCEPT ![r].framePaths = FramePathsOf(o.data)]
            /\ Log(r, local[r].sessionId,
                   <<T("return", "extractFrames"), P(2, 30), P(3, 35),
                     T("invoke", "transcribeVideo"), K>>)
            /\ pc' = [pc EXCEPT ![r] = "transcribeVideo"]
            /\ UNCHANGED <<response, uploads, tmpDirs, svcFailed>>
       ELSE /\ Throw(r, "extractFrames", <<>>, unlinkOk, rmOk)
            /\ svcFailed' = [svcFailed EXCEPT ![r] = @ \cup {"extractFrames"}]
            /\ UNCHANGED local
    /\ UNCHANGED <<req, env, now, tempVideoPath, tmpDir, agg, activeSessions, demoOut>>

\* variant: a failed transcription is absorbed with an empty transcript
TranscribeVideoReturn_Fallback(r, o, unlinkOk, rmOk) ==
    /\ pc[r] = "transcribeVideo"
    /\ local' = [local EXCEPT ![r].transcriptionData =
           IF o.kind = "ok" THEN transcribeVideo(o.data) ELSE @]
    /\ Log(r, local[r].sessionId,
           <<T("return", "transcribeVideo"), P(3, 40), P(3, 42),
             T("invoke", "analyzeSegmentSentiments"), K>>)
    /\ pc' = [pc EXCEPT ![r] = "analyzeSegmentSentiments"]
    /\ svcFailed' = [svcFailed EXCEPT ![r] =
           IF o.kind = "ok" THEN @ ELSE @ \cup {"transcribeVideo"}]
    /\ UNCHANGED <<response, uploads, tmpDirs>>
    /\ UNCHANGED <<req, env, now, tempVideoPath, tmpDir, agg, activeSessions, demoOut>>

\* transcribeVideo has settled (lines 185-192; transcription.js rethrows a
\* failed Whisper call)
TranscribeVideoReturn(r, o, unlinkOk, rmOk) ==
    /\ pc[r] = "transcribeVideo"
    /\ IF o.kind = "ok"
       THEN /\ local' = [local EXCEPT ![r].transcriptionData = transcribeVideo(o.data)]
            /\ Log(r, local[r].sessionId,
                   <<T("return", "transcribeVideo"), P(3, 40), P(3, 42),
                     T("invoke", "analyzeSegmentSentiments"), K>>)
            /\ pc' = [pc EXCEPT ![r] = "analyzeSegmentSentiments"]
            /\ UNCHANGED <<response, uploads, tmpDirs, svcFailed>>
       ELSE /\ Throw(r, "transcribeVideo", <<>>, unlinkOk, rmOk)
            /\ svcFailed' = [svcFailed EXCEPT ![r] = @ \cup {"transcribeVideo"}]
            /\ UNCHANGED local
    /\ UNCHANGED <<req, env, now, tempVideoPath, tmpDir, agg, activeSessions, demoOut>>

\* variant: the threshold itself already takes the coarser stride
sampleRateFor_Strict(nFrames) == IF nFrames < SampleThreshold THEN 1 ELSE 2

\* sampleRate of line 215
sampleRateFor(nFrames) == IF nFrames <= SampleThreshold THEN 1 ELSE 2

\* detectObjectsInFrames stands at a (suspended, returned or thrown): what the
\* handler does about it (lines 219-225). loc and entries: the locals and the
\* trace of the step so far.
DetectionStage(r, a, loc, entries, unlinkOk, rmOk) ==
    LET \* detectObjectsInFrame was called for one more frame in this step
        frameCall == IF Len(a.calls) > Len(agg[r].calls) THEN <<K>> ELSE <<>>
    IN /\ agg' = [agg EXCEPT ![r] = a]
       /\ CASE a.status = "awaiting" ->
                 /\ pc' = [pc EXCEPT ![r] = "detectObjectsInFrames"]
                 /\ local' = [local EXCEPT ![r] = loc]
                 /\ Log(r, loc.sessionId, entries \o frameCall)
                 /\ UNCHANGED <<response, uploads, tmpDirs>>
            [] a.status = "returned" ->
                 /\ pc' = [pc EXCEPT ![r] = "analyzeSentiment"]
                 /\ local' = [local EXCEPT ![r] = [loc EXCEPT !.objects_detected = a.result]]
                 /\ Log(r, loc.sessionId,
                        entries \o <<T("return", "detectObjectsInFrames"), P(4, 65), P(5, 75),
                                     T("invoke", "analyzeSentiment"), K>>)
                 /\ UNCHANGED <<response, uploads, tmpDirs>>
            [] a.status = "thrown" ->
                 /\ local' = [local EXCEPT ![r] = loc]
                 /\ Throw(r, "detectObjectsInFrames", entries \o frameCall, unlinkOk, rmOk)

\* analyzeSegmentSentiments has settled (lines 192-219): it never throws, a
\* failed call of the service gives the neutral fallback. The segments are
\* enriched and detectObjectsInFrames runs to its first await.
AnalyzeSegmentSentimentsReturn(r, o, readOk, unlinkOk, rmOk) ==
    /\ pc[r] = "analyzeSegmentSentiments"
    /\ LET segments == local[r].transcriptionData.segments
           segmentSentiments == analyzeSegmentSentiments(segments, o)
           loc == [local[r] EXCEPT
                      !.segmentSentiments = segmentSentiments,
                      !.enrichedSegments = enrichSegments(segments, segmentSentiments)]
           framePaths == local[r].framePaths
       IN DetectionStage(r,
              aggStart(framePaths, sampleRateFor(Len(framePaths)), DetectFps, readOk),
              loc,
              <<T("return", "analyzeSegmentSentiments"), P(3, 45), P(4, 50),
                T("invoke", "detectObjectsInFrames")>>,
              unlinkOk, rmOk)
    /\ svcFailed' = [svcFailed EXCEPT ![r] =
           IF o.kind = "ok" THEN @ ELSE @ \cup {"analyzeSegmentSentiments"}]
    /\ UNCHANGED <<req, env, now, tempVideoPath, tmpDir, activeSessions, demoOut>>

\* the vision call of the current sampled frame has settled
DetectObjectsInFrameReturn(r, o, readOk, unlinkOk, rmOk) ==
    /\ pc[r] = "detectObjectsInFrames"
    /\ DetectionStage(r, aggResume(agg[r], o, readOk), local[r], <<>>, unlinkOk, rmOk)
    /\ svcFailed' = [svcFailed EXCEPT ![r] =
           IF o.kind = "ok" THEN @ ELSE @ \cup {"detectObjectsInFrame"}]
    /\ UNCHANGED <<req, env, now, tempVideoPath, tmpDir, activeSessions, demoOut>>

\* variant: generateQAPairs is started before analyzeSentiment is awaited
AnalyzeSentimentReturn_QAFirst(r, o) ==
    /\ pc[r] = "analyzeSentiment"
    /\ local' = [local EXCEPT ![r].sentiment = analyzeSentiment(o)]
    /\ Log(r, local[r].sessionId,
           <<T("invoke", "generateQAPairs"), T("return", "analyzeSentiment"),
             P(5, 85), P(6, 90)>>)
    /\ svcFailed' = [svcFailed EXCEPT ![r] =
           IF o.kind = "ok" THEN @ ELSE @ \cup {"analyzeSentiment"}]
    /\ pc' = [pc EXCEPT ![r] = "generateQAPairs"]
    /\ UNCHANGED <<req, env, now, uploads, tmpDirs, tempVideoPath, tmpDir, agg,
                   response, activeSessions, demoOut>>

\* analyzeSentiment has settled (lines 225-231): it never throws either
AnalyzeSentimentReturn(r, o) ==
    /\ pc[r] = "analyzeSentiment"
    /\ local' = [local EXCEPT ![r].sentiment = analyzeSentiment(o)]
    /\ Log(r, local[r].sessionId,
           <<T("return", "analyzeSentiment"), P(5, 85), P(6, 90),
             T("invoke", "generateQAPairs")>>)
    /\ svcFailed' = [svcFailed EXCEPT ![r] =
           IF o.kind = "ok" THEN @ ELSE @ \cup {"analyzeSentiment"}]
    /\ pc' = [pc EXCEPT ![r] = "generateQAPairs"]
    /\ UNCHANGED <<req, env, now, uploads, tmpDirs, tempVideoPath, tmpDir, agg,
                   response, activeSessions, demoOut>>

\* variant: the pairs are left out of the result when there is only one
assembleResult_DropsSinglePair(loc, originalname) ==
    [sessionId |-> loc.sessionId,
     metadata |-> [videoFile |-> originalname, videoDuration |-> loc.duration,
                   processedAt |-> now, processingTime |-> now - loc.startTime],
     transcript |-> [full_text |-> loc.transcriptionData.full_text,
                     language |-> loc.transcriptionData.language,
                     segments |-> loc.enrichedSegments],
     sentiment |-> loc.sentiment,
     objects_detected |-> loc.objects_detected,
     qa_pairs |-> IF Len(loc.qaPairs) > 1 THEN loc.qaPairs ELSE <<>>]

\* the AnalysisResult built at lines 235-251
assembleResult(loc, originalname) ==
    [sessionId |-> loc.sessionId,
     metadata |-> [videoFile |-> originalname, videoDuration |-> loc.duration,
                   processedAt |-> now, processingTime |-> now - loc.startTime],
     transcript |-> [full_text |-> loc.transcriptionData.full_text,
                     language |-> loc.transcriptionData.language,
                     segments |-> loc.enrichedSegments],
     sentiment |-> loc.sentiment,
     objects_detected |-> loc.objects_detected,
     qa_pairs |-> loc.qaPairs]

\* generateQAPairs has settled (lines 231-256, then finally): it never throws,
\* a failed call of the service gives one fallback pair
GenerateQAPairsReturn(r, o, unlinkOk, rmOk) ==
    /\ pc[r] = "generateQAPairs"
    /\ LET loc == [local[r] EXCEPT !.qaPairs = generateQAPairs(o)]
       IN /\ local' = [local EXCEPT ![r] = loc]
          /\ End(r, loc.sessionId,
                 <<T("return", "generateQAPairs"), P(6, 95), T("assemble", "result"),
                   P(6, 100)>>,
                 okResponse(assembleResult(loc, req[r].originalname)), unlinkOk, rmOk)
    /\ svcFailed' = [svcFailed EXCEPT ![r] =
           IF o.kind = "ok" THEN @ ELSE @ \cup {"generateQAPairs"}]
    /\ UNCHANGED <<req, env, now, tempVideoPath, tmpDir, agg, activeSessions, demoOut>>

\* ------------------------------------------------------------- the demo branch
\* the update the k-th timer of lines 109-131 sends
demoTimerEvent(k) ==
    CASE k = 1 -> P(1, 20)
      [] k = 2 -> P(2, 40)
      [] k = 3 -> P(3, 60)
      [] k = 4 -> P(4, 80)
      [] k = 5 -> P(5, 90)
      [] k = 6 -> P(6, 95)

DemoTimerCount == 6

\* the next of the six timers fires (they expire 500 ms apart, in order)
DemoTimer(r) ==
    /\ pc[r] = "demoTimers"
    /\ Log(r, local[r].sessionId, <<demoTimerEvent(local[r].timer)>>)
    /\ local' = [local EXCEPT ![r].timer = @ + 1]
    /\ pc' = [pc EXCEPT ![r] =
           IF local[r].timer = DemoTimerCount THEN "demoWait" ELSE "demoTimers"]
    /\ UNCHANGED <<req, env, now, uploads, tmpDirs, tempVideoPath, tmpDir, agg,
                   response, svcFailed, activeSessions, demoOut>>

\* variant: completion is reported before the uploaded file is removed
DemoFinish_ProgressFirst(r, unlinkOk) ==
    /\ pc[r] = "demoWait"
    /\ pc' = [pc EXCEPT ![r] = "done"]
    /\ LET result == [sessionId |-> local[r].sessionId]
                         @@ generateDemoResults(req[r].originalname)
       IN IF r \in uploads /\ ~unlinkOk
          THEN /\ response' = [response EXCEPT ![r] = errorResponse("unlinkSync")]
               /\ Log(r, local[r].sessionId,
                      <<P(6, 100), T("throw", "unlinkSync"), T("respond", "500")>>)
               /\ UNCHANGED uploads
          ELSE /\ uploads' = uploads \ {r}
               /\ response' = [response EXCEPT ![r] = okResponse(result)]
               /\ Log(r, local[r].sessionId,
                      <<P(6, 100)>>
                          \o (IF r \in uploads THEN <<T("cleanup", "unlinkSync")>> ELSE <<>>)
                          \o <<T("respond", "200")>>)
    /\ UNCHANGED <<req, env, now, tmpDirs, tempVideoPath, tmpDir, local, agg,
                   svcFailed, activeSessions, demoOut>>

\* the 3500 ms wait is over (lines 136-145, then catch/finally)
DemoFinish(r, unlinkOk) ==
    /\ pc[r] = "demoWait"
    /\ LET result == [sessionId |-> local[r].sessionId]
                         @@ generateDemoResults(req[r].originalname)
       IN IF r \in uploads /\ ~unlinkOk
          THEN \* unlinkSync threw: caught at line 258; finally finds nulls
               /\ pc' = [pc EXCEPT ![r] = "done"]
               /\ response' = [response EXCEPT ![r] = errorResponse("unlinkSync")]
               /\ Log(r, local[r].sessionId,
                      <<T("throw", "unlinkSync"), T("respond", "500")>>)
               /\ UNCHANGED uploads
          ELSE /\ pc' = [pc EXCEPT ![r] = "done"]
               /\ uploads' = uploads \ {r}
               /\ response' = [response EXCEPT ![r] = okResponse(result)]
               /\ Log(r, local[r].sessionId,
                      (IF r \in uploads THEN <<T("cleanup", "unlinkSync")>> ELSE <<>>)
                          \o <<P(6, 100), T("respond", "200")>>)
    /\ UNCHANGED <<req, env, now, tmpDirs, tempVideoPath, tmpDir, local, agg,
                   svcFailed, activeSessions, demoOut>>

\* -------------------------------------------------------------- specifications
\* One request: any submission and every outcome of every awaited call, with
\* the clock advancing.
Next ==
    \/ \E q \in Requests : Upload(1, q)
    \/ HandlerStart(1)
    \/ \E o \in ProbeOutcomes, u, m \in BOOLEAN : GetVideoDurationReturn(1, o, u, m)
    \/ \E o \in AudioOutcomes, u, m \in BOOLEAN : ExtractAudioReturn(1, o, u, m)
    \/ \E o \in FramesOutcomes, u, m \in BOOLEAN : ExtractFramesReturn(1, o, u, m)
    \/ \E o \in TranscribeOutcomes, u, m \in BOOLEAN : TranscribeVideoReturn(1, o, u, m)
    \/ \E o \in SpecSegmentSentimentOutcomes, f, u, m \in BOOLEAN :
           AnalyzeSegmentSentimentsReturn(1, o, f, u, m)
    \/ \E o \in SpecDetectOutcomes, f, u, m \in BOOLEAN :
           DetectObjectsInFrameReturn(1, o, f, u, m)
    \/ \E o \in OverallSentimentOutcomes : AnalyzeSentimentReturn(1, o)
    \/ \E o \in QAOutcomes, u, m \in BOOLEAN : GenerateQAPairsReturn(1, o, u, m)
    \/ DemoTimer(1)
    \/ \E u \in BOOLEAN : DemoFinish(1, u)
    \/ now < MaxClock /\ Tick

Spec == Init /\ [][Next]_vars

\* The same request with progress subscribers coming and going. The stages
\* that absorb a failure of their service are given one answer each here: what
\* they answer changes no progress update.
AnsweredOnly(outcomes) == {CHOOSE o \in outcomes : o.kind = "ok"}

NextProgress ==
    \/ \E q \in Requests : Upload(1, q)
    \/ HandlerStart(1)
    \/ \E o \in ProbeOutcomes, u, m \in BOOLEAN : GetVideoDurationReturn(1, o, u, m)
    \/ \E o \in AudioOutcomes, u, m \in BOOLEAN : ExtractAudioReturn(1, o, u, m)
    \/ \E o \in FramesOutcomes, u, m \in BOOLEAN : ExtractFramesReturn(1, o, u, m)
    \/ \E o \in {Failure} \cup AnsweredOnly(TranscribeOutcomes), u, m \in BOOLEAN :
           TranscribeVideoReturn(1, o, u, m)
    \/ \E o \in AnsweredOnly(SpecSegmentSentimentOutcomes), f, u, m \in BOOLEAN :
           AnalyzeSegmentSentimentsReturn(1, o, f, u, m)
    \/ \E o \in AnsweredOnly(SpecDetectOutcomes), f, u, m \in BOOLEAN :
           DetectObjectsInFrameReturn(1, o, f, u, m)
    \/ \E o \in AnsweredOnly(OverallSentimentOutcomes) : AnalyzeSentimentReturn(1, o)
    \/ \E o \in AnsweredOnly(QAOutcomes), u, m \in BOOLEAN :
           GenerateQAPairsReturn(1, o, u, m)
    \/ DemoTimer(1)
    \/ \E u \in BOOLEAN : DemoFinish(1, u)
    \/ now < MaxClock /\ Tick
    \/ \E sid \in SessionIds : Len(chans) < MaxChan /\ Subscribe(sid)
    \/ \E c \in 1..MaxChan : Disconnect(c)

SpecProgress == Init /\ [][NextProgress]_vars

\* Direct calls of the demo engine at the clock's successive values.
DemoCall(videoFile) ==
    /\ demoOut' = Append(demoOut, [videoFile |-> videoFile,
                                   result |-> generateDemoResults(videoFile)])
    /\ UNCHANGED <<pc, req, env, now, uploads, tmpDirs, tempVideoPath, tmpDir, local,
                   agg, response, trace, svcFailed, activeSessions, chans>>

NextDemo ==
    \/ \E f \in FileNames : Len(demoOut) < MaxDemoCalls /\ DemoCall(f)
    \/ now < MaxClock /\ Tick

SpecDemo == Init /\ [][NextDemo]_vars

\* Direct calls of detectObjectsInFrames on any frame list and stride, with
\* every outcome of the frame reads and of the vision calls.
AggCall(framePaths, sampleRate, fps, readOk) ==
    /\ agg[1].status = "idle"
    /\ agg' = [agg EXCEPT ![1] = aggStart(framePaths, sampleRate, fps, readOk)]
    /\ UNCHANGED <<pc, req, env, now, uploads, tmpDirs, tempVideoPath, tmpDir, local,
                   response, trace, svcFailed, activeSessions, chans, demoOut>>

AggDetectReturn(o, readOk) ==
    /\ agg[1].status = "awaiting"
    /\ agg' = [agg EXCEPT ![1] = aggResume(agg[1], o, readOk)]
    /\ UNCHANGED <<pc, req, env, now, uploads, tmpDirs, tempVideoPath, tmpDir, local,
                   response, trace, svcFailed, activeSessions, chans, demoOut>>

NextAgg ==
    \/ \E n \in 0..MaxAggFrames, s \in 1..MaxStride, fps \in {1, 2}, f \in BOOLEAN :
           AggCall(FramePathsOf(n), s, fps, f)
    \/ \E o \in DetectOutcomes, f \in BOOLEAN : AggDetectReturn(o, f)

SpecAgg == Init /\ [][NextAgg]_vars

\* ===================================================================== claims
\* what the claims speak of, read off the trace
Has(r, e) == \E i \in DOMAIN trace[r] : trace[r][i] = e
EntriesOf(r, kinds) == SelectSeq(trace[r], LAMBDA e : e.ev \in kinds)
Finished(r) == pc[r] = "done"
Subscribed(r) == local[r].sessionId \in DOMAIN activeSessions

StageOrder ==
    <<"getVideoDuration", "extractAudio", "extractFrames", "transcribeVideo",
      "analyzeSegmentSentiments", "detectObjectsInFrames", "analyzeSentiment",
      "generateQAPairs">>

\* invoke, return of each stage in turn, then the assembly of the result
FullRun ==
    [k \in 1..(2 * Len(StageOrder) + 1) |->
        IF k = 2 * Len(StageOrder) + 1 THEN T("assemble", "result")
        ELSE IF k % 2 = 1 THEN T("invoke", StageOrder[(k + 1) \div 2])
        ELSE T("return", StageOrder[k \div 2])]

\* C1: the collaborators of a real request are invoked in the one fixed order
\* getVideoDuration, extractAudio, extractFrames, transcribeVideo,
\* analyzeSegmentSentiments, detectObjectsInFrames, analyzeSentiment,
\* generateQAPairs, assembly; each only after the one before it has returned,
\* and a request answered 200 outside demo mode has gone through all of them.
C1_FixedStageOrder ==
    \A r \in Reqs :
        LET calls == EntriesOf(r, {"invoke", "return", "assemble"})
        IN /\ IsPrefix(calls, FullRun)
           /\ (Finished(r) /\ response[r].status = 200 /\ ~local[r].demoMode)
                  => calls = FullRun

C1_Witness ==
    /\ Finished(1) /\ response[1].status = 200 /\ ~local[1].demoMode
    /\ Len(local[1].framePaths) >= 1
    /\ Has(1, T("assemble", "result"))

\* a removal of finally, or the demo branch's unlinkSync, failed in the file system
RemovalFailed(r) == Has(r, T("cleanup", "cleanupError")) \/ Has(r, T("throw", "unlinkSync"))

\* C2: when a request has ended, on any exit path, its uploaded file and its
\* working directory are gone (file-system removals that themselves fail aside).
C2_CleanupOnEveryExit ==
    \A r \in Reqs :
        (Finished(r) /\ ~RemovalFailed(r))
            => /\ r \notin uploads
               /\ (tmpDir[r] # Null => tmpDir[r] \notin tmpDirs)

SixStages ==
    {"getVideoDuration", "extractAudio", "extractFrames", "transcribeVideo",
     "analyzeSegmentSentiments", "analyzeSentiment"}
FourStages == {"getVideoDuration", "extractAudio", "extractFrames", "transcribeVideo"}

\* the request is Failed with the message of the error of fn and no result
FailedWith(r, fn) ==
    /\ Finished(r)
    /\ response[r].status = 500
    /\ DOMAIN response[r].body = {"error"}
    /\ response[r].body.error = fn

\* C3 as stated: a failure of the collaborator of getVideoDuration,
\* extractAudio, extractFrames, transcribeVideo, analyzeSegmentSentiments or
\* analyzeSentiment ends the request Failed with that error's message.
C3_SixStageFailuresFail ==
    \A r \in Reqs : \A fn \in svcFailed[r] \cap SixStages : FailedWith(r, fn)

\* C3 amended: a failure of the collaborator of getVideoDuration, extractAudio,
\* extractFrames or transcribeVideo ends the request Failed, with an error
\* response carrying that error's message and no result.
C3_FourStageFailuresFail ==
    \A r \in Reqs : \A fn \in svcFailed[r] \cap FourStages : FailedWith(r, fn)

C3_Witness ==
    /\ "transcribeVideo" \in svcFailed[1]
    /\ Finished(1)
    /\ Has(1, T("return", "extractFrames"))

\* C4: after a stage has failed nothing but the response and the cleanup
\* follows (no collaborator call, no progress update); no stage is invoked
\* twice, no sampled frame is submitted to detection twice, and a request
\* fails at most once.
C4_NothingAfterFailure ==
    \A r \in Reqs :
        /\ \A i, j \in DOMAIN trace[r] :
               (i < j /\ trace[r][i].ev = "throw")
                   => trace[r][j].ev \in {"respond", "cleanup"}
        /\ \A i, j \in DOMAIN trace[r] :
               (i # j /\ trace[r][i].ev = "invoke") => trace[r][j] # trace[r][i]
        /\ \A i, j \in DOMAIN agg[r].calls :
               i # j => agg[r].calls[i] # agg[r].calls[j]
        /\ Len(agg[r].calls) <= Len(agg[r].sampledFrames)
        /\ Len(EntriesOf(r, {"throw"})) <= 1

C4_Witness ==
    /\ Finished(1) /\ response[1].status = 500
    /\ Has(1, T("throw", "extractFrames"))
    /\ Has(1, P(2, 25))

ValidationMessages ==
    {"No video file uploaded", "Invalid OpenAI API key", "File too large",
     "Only MP4 files are allowed"}

\* the request was answered with an input validation error
Rejected(r) ==
    /\ Finished(r)
    /\ response[r].status \in {400, 500}
    /\ response[r].body.error \in ValidationMessages

\* C5: a request rejected at validation has invoked no collaborator, made no
\* working directory, sent no progress update and left the process-wide
\* credential as it was.
C5_RejectionRunsNothing ==
    \A r \in Reqs :
        Rejected(r)
            => /\ EntriesOf(r, {"invoke", "return", "progress", "assemble"}) = <<>>
               /\ agg[r].calls = <<>>
               /\ tmpDir[r] = Null /\ tmpDirs = {}
               /\ env = Str_empty
               /\ \A c \in DOMAIN chans :
                      \A i \in DOMAIN chans[c].log : chans[c].log[i].type # "progress"

C5_Witness ==
    /\ Rejected(1)
    /\ response[1].body.error = "Invalid OpenAI API key"
    /\ req[1].apiKey = Str_xsk
    /\ Subscribed(1)

\* a credential that is neither a demo sentinel nor a non-empty 'sk-' string
BadCredential(k) ==
    /\ k # Str_demo /\ k # Str_test
    /\ ~(Len(k) >= 3 /\ k[1] = "s" /\ k[2] = "k" /\ k[3] = "-")

\* C6 as stated: every request whose credential is neither a demo sentinel nor
\* a non-empty 'sk-' string is rejected with an input validation error.
C6_BadCredentialRejected ==
    \A r \in Reqs :
        (pc[r] \notin {"idle", "handler"} /\ BadCredential(req[r].apiKey))
            => Rejected(r)

\* C6 amended: every request whose demo flag is not set and whose credential is
\* neither a demo sentinel nor a non-empty 'sk-' string is rejected with an
\* input validation error, as soon as the handler has looked at it.
C6_BadCredentialNoFlagRejected ==
    \A r \in Reqs :
        (pc[r] \notin {"idle", "handler"} /\ req[r].demoMode # "true"
             /\ BadCredential(req[r].apiKey))
            => Rejected(r)

C6_Witness ==
    /\ Finished(1)
    /\ req[1].file /\ req[1].mimetype = "video/mp4" /\ ~req[1].tooLarge
    /\ req[1].demoMode # "true" /\ req[1].apiKey = Str_xsk
    /\ response[1].status = 400

\* C7: a request whose credential is a demo sentinel or whose demo flag is set
\* never invokes a collaborator, and the result it returns has
\* metadata.demoMode = true.
C7_DemoInvokesNothing ==
    \A r \in Reqs :
        (pc[r] # "idle" /\ (req[r].apiKey \in {Str_demo, Str_test}
                                \/ req[r].demoMode = "true"))
            => /\ EntriesOf(r, {"invoke", "return", "assemble"}) = <<>>
               /\ agg[r].status = "idle"
               /\ response[r].status = 200
                      => /\ "demoMode" \in DOMAIN response[r].body.metadata
                         /\ response[r].body.metadata.demoMode = TRUE

C7_Witness ==
    /\ Finished(1) /\ response[1].status = 200
    /\ req[1].demoMode = "true" /\ req[1].apiKey = Str_skA
    /\ Len(EntriesOf(1, {"progress"})) = 8

\* C8 as stated: two calls of generateDemoResults with the same file name give
\* results equal in every field, metadata included.
C8_DemoDeterministic ==
    \A i, j \in DOMAIN demoOut :
        demoOut[i].videoFile = demoOut[j].videoFile
            => demoOut[i].result = demoOut[j].result

\* C8 amended: two calls of generateDemoResults with the same file name give
\* results equal in every field except metadata.processedAt.
C8_DemoDeterministicButTime ==
    \A i, j \in DOMAIN demoOut :
        demoOut[i].videoFile = demoOut[j].videoFile
            => [demoOut[i].result EXCEPT !.metadata.processedAt = 0]
                   = [demoOut[j].result EXCEPT !.metadata.processedAt = 0]

C8_Witness ==
    \E i, j \in DOMAIN demoOut :
        /\ i < j
        /\ demoOut[i].videoFile = demoOut[j].videoFile
        /\ demoOut[i].result.metadata.processedAt
               # demoOut[j].result.metadata.processedAt

\* C9: a frame whose read, vision call or answer fails adds no detections and
\* never aborts the aggregation or the request; with every frame failed the
\* stage returns the empty list.
C9_FrameFailureAbsorbed ==
    \A r \in Reqs :
        agg[r].failed # {}
            => /\ agg[r].status # "thrown"
               /\ ~Has(r, T("throw", "detectObjectsInFrames"))
               /\ (agg[r].status = "returned"
                       /\ Cardinality(agg[r].failed) = Len(agg[r].sampledFrames))
                      => agg[r].result = <<>>

\* ordinals 1, 1+s, 1+2s, ... not above n
ExpectedOrdinals(n, s) == [k \in 1..((n + s - 1) \div s) |-> 1 + (k - 1) * s]

\* C10: detectObjectsInFrames submits exactly the frames of ordinal 1, 1+s,
\* 1+2s, ... <= N, each once and in ascending order: ceil(N/s) submissions
\* when it returns, a prefix of them before.
C10_SampledOrdinals ==
    LET a == agg[1]
        n == Len(a.framePaths)
        ordinals == [k \in DOMAIN a.calls |-> indexOf(a.framePaths, a.calls[k]) + 1]
        expected == ExpectedOrdinals(n, a.sampleRate)
    IN /\ IsPrefix(ordinals, expected)
       /\ a.status = "returned"
              => /\ ordinals = expected
                 /\ Len(a.calls) * a.sampleRate >= n
                 /\ (Len(a.calls) - 1) * a.sampleRate < n \/ n = 0

C10_Witness ==
    /\ agg[1].status = "returned"
    /\ Len(agg[1].framePaths) = 4 /\ agg[1].sampleRate = 2
    /\ agg[1].calls = <<FramePath(1), FramePath(3)>>

\* ------------------------------------------------------------ claims C11..C20
\* A real request that goes through, with frame counts on both sides of the
\* sampling threshold; every service answers, every frame is readable and the
\* vision service sees no object in any of them.
StrideFrameCounts == (SampleThreshold - MaxOver)..(SampleThreshold + MaxOver)

StrideRequests ==
    { q \in Requests : /\ q.file /\ q.mimetype = "video/mp4" /\ ~q.tooLarge
                       /\ q.apiKey = Str_skA /\ q.demoMode = "" }

NextStride ==
    \/ \E q \in StrideRequests : Upload(1, q)
    \/ HandlerStart(1)
    \/ \E o \in AnsweredOnly(ProbeOutcomes) : GetVideoDurationReturn(1, o, TRUE, TRUE)
    \/ \E o \in AnsweredOnly(AudioOutcomes) : ExtractAudioReturn(1, o, TRUE, TRUE)
    \/ \E n \in StrideFrameCounts : ExtractFramesReturn(1, Ok(n), TRUE, TRUE)
    \/ \E o \in AnsweredOnly(TranscribeOutcomes) : TranscribeVideoReturn(1, o, TRUE, TRUE)
    \/ \E o \in AnsweredOnly(SpecSegmentSentimentOutcomes) :
           AnalyzeSegmentSentimentsReturn(1, o, TRUE, TRUE, TRUE)
    \/ DetectObjectsInFrameReturn(1, [kind |-> "ok", objects |-> <<>>], TRUE, TRUE, TRUE)
    \/ \E o \in AnsweredOnly(OverallSentimentOutcomes) : AnalyzeSentimentReturn(1, o)
    \/ \E o \in AnsweredOnly(QAOutcomes) : GenerateQAPairsReturn(1, o, TRUE, TRUE)

SpecStride == Init /\ [][NextStride]_vars

\* C11: the handler calls detectObjectsInFrames with the extracted frame list,
\* with stride 1 when it has at most 30 frames and stride 2 otherwise, and with
\* the frames-per-second rate that extractFrames was called with.
C11_StrideAndRate ==
    \A r \in Reqs :
        agg[r].status # "idle"
            => LET n == Len(local[r].framePaths)
               IN /\ agg[r].framePaths = local[r].framePaths
                  /\ n <= 30 => agg[r].sampleRate = 1
                  /\ n > 30 => agg[r].sampleRate = 2
                  /\ agg[r].fps = ExtractFps

C11_Witness ==
    /\ agg[1].status = "returned"
    /\ Len(agg[1].framePaths) = 31
    /\ agg[1].sampleRate = 2
    /\ Len(agg[1].calls) = 16
    /\ Finished(1) /\ response[1].status = 200

\* the summaries detectObjectsInFrames has returned, and the frame count N
Summaries == IF agg[1].status = "returned" THEN agg[1].result ELSE <<>>
FrameCount == Len(agg[1].framePaths)

\* p (in tenths) is x = 100 * k / n rounded to one decimal, halves upwards
RoundedPercent(p, k, n) ==
    /\ 2 * (p * n - 1000 * k) <= n
    /\ 2 * (p * n - 1000 * k) > -n

\* C12: every summary returned by detectObjectsInFrames has
\* appearance_percentage = (entries of its frames list / N) * 100 rounded to one
\* decimal, N the full frame count, and the value lies in [0, 100].
C12_PercentageFormulaAndRange ==
    \A k \in DOMAIN Summaries :
        /\ RoundedPercent(Summaries[k].appearance_percentage,
                          Len(Summaries[k].frames), FrameCount)
        /\ Summaries[k].appearance_percentage >= 0
        /\ Summaries[k].appearance_percentage <= 1000

\* the confidences of the frames entries of a summary
ConfidencesOf(summary) == [i \in DOMAIN summary.frames |-> summary.frames[i].confidence]

\* every confidence the vision service reported lies in [0, 1] (hundredths)
ConfidencesInRange ==
    \A f \in DOMAIN agg[1].detectionsByFrame :
        \A i \in DOMAIN agg[1].detectionsByFrame[f].objects :
            LET obj == agg[1].detectionsByFrame[f].objects[i]
            IN "confidence" \in DOMAIN obj => (obj.confidence >= 0 /\ obj.confidence <= 100)

\* a (in hundredths) is a nearest two-decimal value of the mean of cs
RoundedMean(a, cs) ==
    LET d == a * Len(cs) - SumSeq(cs)
    IN 2 * d <= Len(cs) /\ 2 * d >= -Len(cs)

\* C13: every summary returned by detectObjectsInFrames has avg_confidence =
\* the mean of the confidences of its frames entries rounded to two decimals,
\* and the value lies in [0, 1] when every reported confidence does.
C13_AvgConfidence ==
    \A k \in DOMAIN Summaries :
        /\ RoundedMean(Summaries[k].avg_confidence, ConfidencesOf(Summaries[k]))
        /\ ConfidencesInRange
               => (Summaries[k].avg_confidence >= 0 /\ Summaries[k].avg_confidence <= 100)

C13_Witness ==
    \E k \in DOMAIN Summaries :
        /\ Len(Summaries[k].frames) = 3
        /\ Summaries[k].avg_confidence * 3 # SumSeq(ConfidencesOf(Summaries[k]))
        /\ ConfidencesInRange

\* C14: the list detectObjectsInFrames returns is sorted by
\* appearance_percentage in non-increasing order.
C14_SortedByPercentage ==
    \A k \in 1..(Len(Summaries) - 1) :
        Summaries[k].appearance_percentage >= Summaries[k + 1].appearance_percentage

\* "person" was seen first, "laptop" more often
C14_Witness ==
    /\ Len(Summaries) = 2
    /\ agg[1].detectionsByFrame[1].objects # <<>>
    /\ agg[1].detectionsByFrame[1].objects[1].name = "Person"
    /\ Summaries[1].name = "laptop"
    /\ Summaries[1].appearance_percentage > Summaries[2].appearance_percentage

\* the element values of a sequence
Range(seq) == {seq[i] : i \in DOMAIN seq}

\* entry e of the summary called name came from a detection in the frame of
\* ordinal e.frame_id
ProducedBy(e, name) ==
    \E f \in DOMAIN agg[1].detectionsByFrame :
        LET d == agg[1].detectionsByFrame[f]
        IN /\ d.frame_id = e.frame_id
           /\ d.frameFile = agg[1].framePaths[e.frame_id]
           /\ \E i \in DOMAIN d.objects :
                  /\ toLowerCase(d.objects[i].name) = name
                  /\ d.objects[i].confidence = e.confidence
                  /\ d.objects[i].context = e.context

\* C15: every frames entry of every summary has a frame_id among the sampled
\* ordinals 1, 1+stride, 1+2*stride, ... of the full frame list, and it is the
\* ordinal of the frame whose detection produced the entry.
C15_FrameIdsAreSampledOrdinals ==
    \A k \in DOMAIN Summaries :
        \A i \in DOMAIN Summaries[k].frames :
            LET e == Summaries[k].frames[i]
            IN /\ e.frame_id \in Range(ExpectedOrdinals(FrameCount, agg[1].sampleRate))
               /\ ProducedBy(e, Summaries[k].name)

C15_Witness ==
    /\ FrameCount = 4 /\ agg[1].sampleRate = 2
    /\ \E k \in DOMAIN Summaries :
           /\ Len(Summaries[k].frames) = 2
           /\ Summaries[k].frames[1].frame_id = 1
           /\ Summaries[k].frames[2].frame_id = 3

\* C16: every frames entry has timestamp = (frame_id - 1) / framesPerSecond,
\* for every frame ordinal and every positive framesPerSecond.
C16_TimestampFromOrdinal ==
    \A k \in DOMAIN Summaries :
        \A i \in DOMAIN Summaries[k].frames :
            LET e == Summaries[k].frames[i]
            IN /\ e.timestamp[2] > 0
               /\ e.timestamp[1] * agg[1].fps = (e.frame_id - 1) * e.timestamp[2]

\* the second frame at two frames per second: half a second
C16_Witness ==
    /\ agg[1].fps = 2
    /\ \E k \in DOMAIN Summaries :
           \E i \in DOMAIN Summaries[k].frames :
               /\ Summaries[k].frames[i].frame_id = 2
               /\ Summaries[k].frames[i].timestamp = <<1, 2>>

\* A real request on a video without frames: every transcript and every
\* answer of the segment sentiment service, its failure included.
NextSegments ==
    \/ \E q \in StrideRequests : Upload(1, q)
    \/ HandlerStart(1)
    \/ \E o \in AnsweredOnly(ProbeOutcomes) : GetVideoDurationReturn(1, o, TRUE, TRUE)
    \/ \E o \in AnsweredOnly(AudioOutcomes) : ExtractAudioReturn(1, o, TRUE, TRUE)
    \/ ExtractFramesReturn(1, Ok(0), TRUE, TRUE)
    \/ \E o \in TranscribeOutcomes \ {Failure} : TranscribeVideoReturn(1, o, TRUE, TRUE)
    \/ \E a \in SegmentSentimentAnswers :
           AnalyzeSegmentSentimentsReturn(1, Ok(a), TRUE, TRUE, TRUE)
    \/ AnalyzeSegmentSentimentsReturn(1, Failure, TRUE, TRUE, TRUE)
    \/ \E o \in AnsweredOnly(OverallSentimentOutcomes) : AnalyzeSentimentReturn(1, o)
    \/ \E o \in AnsweredOnly(QAOutcomes) : GenerateQAPairsReturn(1, o, TRUE, TRUE)
    \/ now < MaxClock /\ Tick

SpecSegments == Init /\ [][NextSegments]_vars

\* the handler has built enrichedSegments
Enriched(r) == Has(r, T("return", "analyzeSegmentSentiments"))
RawSegments(r) == local[r].transcriptionData.segments

\* C17: enrichedSegments has the length of the raw segment list, its i-th
\* element has the id, start, end and text of the i-th raw segment and the
\* speaker label 'creator', whatever records the sentiment service returned.
C17_EnrichedMatchesRaw ==
    \A r \in Reqs :
        Enriched(r)
            => /\ Len(local[r].enrichedSegments) = Len(RawSegments(r))
               /\ \A i \in DOMAIN RawSegments(r) :
                      LET e == local[r].enrichedSegments[i]
                          g == RawSegments(r)[i]
                      IN /\ e.id = g.id /\ e.start = g.start
                         /\ e.end = g.end /\ e.text = g.text
                         /\ e.speaker = "creator"

\* two raw segments, and records for 1 (twice) but none for 0
C17_Witness ==
    /\ Enriched(1)
    /\ Len(RawSegments(1)) = 2
    /\ svcFailed[1] = {}
    /\ local[1].enrichedSegments[1].mood_keywords = <<"unknown">>
    /\ local[1].enrichedSegments[2].mood_keywords = <<"tense">>

\* the positions of the records of ss whose segment_id is id
Matching(ss, id) == {k \in DOMAIN ss : ss[k].segment_id = id}
First(positions) == CHOOSE k \in positions : \A j \in positions : k <= j

\* C18: a raw segment for whose id segmentSentiments has no record with an
\* equal segment_id is enriched with sentiment 'neutral' and mood_keywords
\* ['unknown']; a segment with a matching record takes the sentiment and
\* mood_keywords of that record (of the first one when several match).
C18_SentimentLookup ==
    \A r \in Reqs :
        Enriched(r)
            => \A i \in DOMAIN RawSegments(r) :
                   LET e == local[r].enrichedSegments[i]
                       ss == local[r].segmentSentiments
                       ms == Matching(ss, RawSegments(r)[i].id)
                   IN IF ms = {}
                      THEN e.sentiment = "neutral" /\ e.mood_keywords = <<"unknown">>
                      ELSE /\ e.sentiment = ss[First(ms)].sentiment
                           /\ e.mood_keywords = ss[First(ms)].mood_keywords

\* segment 0 has no record, segment 1 has two that disagree
C18_Witness ==
    /\ Enriched(1)
    /\ Len(RawSegments(1)) = 2
    /\ Matching(local[1].segmentSentiments, 0) = {}
    /\ Matching(local[1].segmentSentiments, 1) = {1, 2}
    /\ local[1].segmentSentiments[1].sentiment # local[1].segmentSentiments[2].sentiment
    /\ local[1].enrichedSegments[1].sentiment = "neutral"
    /\ local[1].enrichedSegments[2].sentiment = "negative"

\* A demo request (eight progress updates, no service) with subscribers to
\* its own and to another session id coming and going.
RegistryIds == {"s1", "s2"}

DemoRequests ==
    { q \in Requests : /\ q.file /\ q.mimetype = "video/mp4" /\ ~q.tooLarge
                       /\ q.apiKey = Str_demo /\ q.demoMode = "" }

NextRegistry ==
    \/ \E q \in DemoRequests : Upload(1, q)
    \/ HandlerStart(1)
    \/ DemoTimer(1)
    \/ DemoFinish(1, TRUE)
    \/ \E sid \in RegistryIds : Len(chans) < MaxRegChan /\ Subscribe(sid)
    \/ \E c \in 1..MaxRegChan : Disconnect(c)

SpecRegistry == Init /\ [][NextRegistry]_vars

\* every registry entry is a channel that was subscribed under that id
RegistryWellFormed ==
    \A sid \in DOMAIN activeSessions :
        /\ activeSessions[sid] \in DOMAIN chans
        /\ chans[activeSessions[sid]].sessionId = sid

\* a step that subscribes a channel makes it the entry of its id and leaves
\* the entries of the other ids alone
SubscribeStep ==
    Len(chans') = Len(chans) + 1
        => LET c == Len(chans')
               sid == chans'[c].sessionId
           IN /\ DOMAIN activeSessions' = DOMAIN activeSessions \cup {sid}
              /\ activeSessions'[sid] = c
              /\ \A o \in DOMAIN activeSessions \ {sid} :
                     activeSessions'[o] = activeSessions[o]

\* C19: the registry maps each session id to at most one channel, one that was
\* subscribed under that id, and right after a subscribe for an id the entry of
\* that id is the new channel, whatever was registered before.
C19_LastSubscriberWins == []RegistryWellFormed /\ [][SubscribeStep]_vars

\* a second subscriber has replaced the first, which is still connected
C19_Witness ==
    /\ Len(chans) = 2
    /\ chans[1].sessionId = chans[2].sessionId
    /\ chans[1].open /\ chans[2].open
    /\ activeSessions[chans[2].sessionId] = 2

\* the messages of the progress updates request r pushes in this step
PushedNow(r) ==
    LET new == SubSeq(trace'[r], Len(trace[r]) + 1, Len(trace'[r]))
        ups == SelectSeq(new, IsProgress)
    IN [i \in DOMAIN ups |-> progressMessage(ups[i])]

\* a channel receives exactly the updates pushed while it is the entry of the
\* pushing request's session id; a push alters no entry; a channel starts with
\* the connection message alone
PushStep ==
    LET sid == local'[1].sessionId
        pushed == PushedNow(1)
    IN /\ \A c \in DOMAIN chans :
              chans'[c].log =
                  chans[c].log \o (IF sid \in DOMAIN activeSessions /\ activeSessions[sid] = c
                                   THEN pushed ELSE <<>>)
       /\ \A c \in DOMAIN chans' \ DOMAIN chans : chans'[c].log = <<connectedMessage>>
       /\ pushed # <<>> => activeSessions' = activeSessions
       /\ (pushed # <<>> /\ sid \notin DOMAIN activeSessions)
              => /\ chans' = chans
                 /\ ~ Has(1, T("throw", "sendProgress"))'

\* C20: a push for a session id that has no registered channel leaves the
\* registry and every channel as they were and raises nothing, and the update
\* is not kept: a channel subscribed afterwards starts with the connection
\* message and receives only what is pushed from then on.
C20_PushWithoutChannel == [][PushStep]_vars

\* three updates were pushed with nobody registered under the request's id; the
\* channel that subscribed under it afterwards holds the connection message only
C20_Witness ==
    /\ Len(EntriesOf(1, {"progress"})) >= 3
    /\ Subscribed(1)
    /\ \A c \in DOMAIN chans :
           chans[c].sessionId = local[1].sessionId => chans[c].log = <<connectedMessage>>

\* the progress messages channel c received, in the order it received them
ReceivedBy(c) == SelectSeq(chans[c].log, LAMBDA m : m.type = "progress")

\* C21: on every channel the first message is the connection message and every
\* later one is a progress update, so no update reaches a channel before its
\* connection message.
C21_ConnectedFirst ==
    \A c \in DOMAIN chans :
        /\ chans[c].log # <<>>
        /\ chans[c].log[1].type = "connected"
        /\ \A i \in 2..Len(chans[c].log) : chans[c].log[i].type = "progress"

\* a channel that received its connection message and then two updates
C21_Witness ==
    \E c \in DOMAIN chans :
        /\ Len(chans[c].log) >= 3
        /\ chans[c].log[1] = connectedMessage
        /\ Len(ReceivedBy(c)) = Len(chans[c].log) - 1

\* the messages of the updates request r emitted so far, in emission order
EmittedBy(r) ==
    LET ups == EntriesOf(r, {"progress"})
    IN [i \in DOMAIN ups |-> progressMessage(ups[i])]

RECURSIVE IsSubsequence(_, _)
IsSubsequence(a, b) ==
    IF a = <<>> THEN TRUE
    ELSE IF b = <<>> THEN FALSE
    ELSE IF Head(a) = Head(b) THEN IsSubsequence(Tail(a), Tail(b))
    ELSE IsSubsequence(a, Tail(b))

TimesReceived(m) ==
    Cardinality(UNION { { <<c, i>> : i \in { k \in DOMAIN ReceivedBy(c) : ReceivedBy(c)[k] = m } } :
                            c \in DOMAIN chans })

\* what the channels hold: updates of their own session id only, in emission
\* order, each update on at most one channel and there at most once
DeliveredInOrder ==
    /\ \A c \in DOMAIN chans :
           IF chans[c].sessionId = local[1].sessionId
           THEN IsSubsequence(ReceivedBy(c), EmittedBy(1))
           ELSE ReceivedBy(c) = <<>>
    /\ \A i \in DOMAIN EmittedBy(1) : TimesReceived(EmittedBy(1)[i]) <= 1

\* a channel receives something only in a step in which it is the registered
\* channel of the emitting request's session id
ReceivedWhileRegistered ==
    \A c \in DOMAIN chans :
        ReceivedBy(c)' # ReceivedBy(c)
            => /\ local'[1].sessionId \in DOMAIN activeSessions
               /\ activeSessions[local'[1].sessionId] = c

\* C22: the updates a channel received are a subsequence, in emission order, of
\* the updates emitted for its session id, received while the channel was the
\* registered one; every emitted update is on at most one channel, at most once.
C22_DeliveredSubsequence == []DeliveredInOrder /\ [][ReceivedWhileRegistered]_vars

\* two channels of the request's session id each received part of the updates,
\* and some updates reached neither
C22_Witness ==
    /\ Len(chans) = 2
    /\ \A c \in DOMAIN chans :
           chans[c].sessionId = local[1].sessionId /\ ReceivedBy(c) # <<>>
    /\ Len(ReceivedBy(1)) + Len(ReceivedBy(2)) < Len(EmittedBy(1))

\* A request whose session id has subscribers coming and going, then the same
\* submission again, under the same session id or under a generated id that
\* nobody can subscribe to.
ReplayRequests ==
    { q \in Requests : /\ q.file /\ q.mimetype = "video/mp4" /\ ~q.tooLarge
                       /\ q.apiKey \in {Str_skA, Str_demo} /\ q.demoMode = ""
                       /\ q.sessionId \in SessionIds }

NextReplay ==
    \/ \E q \in ReplayRequests : Upload(1, q)
    \/ \E sid \in {req[1].sessionId, ""} :
           pc[1] = "done" /\ Upload(2, [req[1] EXCEPT !.sessionId = sid])
    \/ \E r \in {1, 2} :
           \/ HandlerStart(r)
           \/ \E o \in ProbeOutcomes : GetVideoDurationReturn(r, o, TRUE, TRUE)
           \/ \E o \in AnsweredOnly(AudioOutcomes) : ExtractAudioReturn(r, o, TRUE, TRUE)
           \/ ExtractFramesReturn(r, Ok(1), TRUE, TRUE)
           \/ \E o \in {Failure} \cup AnsweredOnly(TranscribeOutcomes) :
                  TranscribeVideoReturn(r, o, TRUE, TRUE)
           \/ \E o \in AnsweredOnly(SpecSegmentSentimentOutcomes) :
                  AnalyzeSegmentSentimentsReturn(r, o, TRUE, TRUE, TRUE)
           \/ \E o \in AnsweredOnly(SpecDetectOutcomes) :
                  DetectObjectsInFrameReturn(r, o, TRUE, TRUE, TRUE)
           \/ \E o \in AnsweredOnly(OverallSentimentOutcomes) : AnalyzeSentimentReturn(r, o)
           \/ \E o \in AnsweredOnly(QAOutcomes) : GenerateQAPairsReturn(r, o, TRUE, TRUE)
           \/ DemoTimer(r)
           \/ DemoFinish(r, TRUE)
    \/ \E sid \in SessionIds : Len(chans) < MaxChan /\ Subscribe(sid)
    \/ \E c \in 1..MaxChan : Disconnect(c)

SpecReplay == Init /\ [][NextReplay]_vars

\* what request r was given: the submission without its session id, and what
\* its collaborators answered
GivenTo(r) ==
    [submission |-> [req[r] EXCEPT !.sessionId = ""],
     failed |-> svcFailed[r],
     duration |-> local[r].duration,
     framePaths |-> local[r].framePaths,
     transcriptionData |-> local[r].transcriptionData,
     segmentSentiments |-> local[r].segmentSentiments]

\* what came of request r: the response without the session id it echoes, and
\* the collaborator calls in order
OutcomeOf(r) ==
    [status |-> response[r].status,
     body |-> [f \in DOMAIN response[r].body \ {"sessionId"} |-> response[r].body[f]],
     calls |-> EntriesOf(r, {"invoke", "return", "throw", "assemble"})]

\* C23: a request ends the same way (response, collaborator calls) with
\* subscribers to its session id coming and going as the same submission with
\* the same collaborator answers does with no subscriber, and the only
\* exceptions a request meets are those of its awaited calls.
C23_SubscriptionBlind ==
    /\ (Finished(1) /\ Finished(2) /\ GivenTo(1) = GivenTo(2))
           => OutcomeOf(1) = OutcomeOf(2)
    /\ \A r \in {1, 2} : \A i \in DOMAIN trace[r] :
           trace[r][i].ev = "throw"
               => trace[r][i].what \in Range(StageOrder) \cup {"unlinkSync"}

\* a real request whose updates reached a subscriber and its replay without
\* one both ended with a result
C23_Witness ==
    /\ Finished(1) /\ Finished(2) /\ GivenTo(1) = GivenTo(2)
    /\ ~local[1].demoMode
    /\ response[1].status = 200 /\ response[2].status = 200
    /\ req[2].sessionId = ""
    /\ \E c \in DOMAIN chans : Len(ReceivedBy(c)) >= 2

\* Two real requests with different credentials and the same session id, in
\* flight together: their steps interleave at the awaits in any order, with
\* the clock advancing.
TwoRequests ==
    [r \in {1, 2} |->
        [file |-> TRUE, mimetype |-> "video/mp4", tooLarge |-> FALSE,
         apiKey |-> IF r = 1 THEN Str_skA ELSE Str_skB,
         sessionId |-> "s1", demoMode |-> "", originalname |-> "a.mp4"]]

NextTwo ==
    \/ \E r \in {1, 2} :
           \/ Upload(r, TwoRequests[r])
           \/ HandlerStart(r)
           \/ \E o \in ProbeOutcomes : GetVideoDurationReturn(r, o, TRUE, TRUE)
           \/ \E o \in AnsweredOnly(AudioOutcomes) : ExtractAudioReturn(r, o, TRUE, TRUE)
           \/ ExtractFramesReturn(r, Ok(1), TRUE, TRUE)
           \/ \E o \in AnsweredOnly(TranscribeOutcomes) :
                  TranscribeVideoReturn(r, o, TRUE, TRUE)
           \/ \E o \in AnsweredOnly(SpecSegmentSentimentOutcomes) :
                  AnalyzeSegmentSentimentsReturn(r, o, TRUE, TRUE, TRUE)
           \/ \E o \in AnsweredOnly(SpecDetectOutcomes) :
                  DetectObjectsInFrameReturn(r, o, TRUE, TRUE, TRUE)
           \/ \E o \in AnsweredOnly(OverallSentimentOutcomes) : AnalyzeSentimentReturn(r, o)
           \/ \E o \in AnsweredOnly(QAOutcomes) : GenerateQAPairsReturn(r, o, TRUE, TRUE)
    \/ now < MaxClock /\ Tick

SpecTwo == Init /\ [][NextTwo]_vars

\* request r is between its first and its last step as a real request
InFlight(r) == pc[r] \notin {"idle", "handler", "done", "demoTimers", "demoWait"}

\* C24: every client of the external services built for a request is built with
\* the credential that request supplied, however the requests interleave.
C24_OwnCredential ==
    \A r \in Reqs : \A i \in DOMAIN trace[r] :
        trace[r][i].ev = "apiKey" => trace[r][i].what = KeyName(req[r].apiKey)

\* C25: two requests in flight never have the same working directory, and the
\* working directory of a request in flight exists.
C25_OwnWorkingDirectory ==
    /\ \A r1, r2 \in Reqs :
           (r1 # r2 /\ InFlight(r1) /\ InFlight(r2)) => tmpDir[r1] # tmpDir[r2]
    /\ \A r \in Reqs : InFlight(r) => tmpDir[r] \in tmpDirs

\* the updates request r emitted so far, in emission order
Updates(r) == EntriesOf(r, {"progress"})

\* C26: at every point of a real request, failed part-way or not, the
\* percentages of the updates emitted so far are strictly increasing and their
\* step indices never decrease.
C26_PercentagesIncrease ==
    \A r \in Reqs :
        ~local[r].demoMode
            => \A i, j \in DOMAIN Updates(r) :
                   i < j => /\ Updates(r)[i].progress < Updates(r)[j].progress
                            /\ Updates(r)[i].step <= Updates(r)[j].step

\* a real request that went through every stage and emitted its 17 updates
C26_Witness ==
    /\ Finished(1) /\ ~local[1].demoMode
    /\ response[1].status = 200
    /\ Len(Updates(1)) = 17

\* C27: the percentages of the updates pushed to one session id never
\* decrease, whichever requests push them. (What a channel of the id received
\* is part of what was pushed to the id, in the same order.)
C27_SessionPercentagesNeverDecrease ==
    \A c \in DOMAIN chans :
        \A i, j \in DOMAIN ReceivedBy(c) :
            i < j => ReceivedBy(c)[i].progress <= ReceivedBy(c)[j].progress

\* where entry e stands in the trace of request r
PositionOf(r, e) == CHOOSE i \in DOMAIN trace[r] : trace[r][i] = e

Precedes(r, e1, e2) == Has(r, e1) /\ Has(r, e2) /\ PositionOf(r, e1) < PositionOf(r, e2)

\* the external calls made within stage fn
ServicesOf(fn) ==
    IF fn = "detectObjectsInFrames" THEN {"detectObjectsInFrames", "detectObjectsInFrame"}
    ELSE {fn}

\* the start update of a stage precedes its call, and its completion update
\* follows the call's return
Bracketed(r, fn) ==
    /\ Has(r, T("invoke", fn)) => Precedes(r, startUpdate(fn), T("invoke", fn))
    /\ Has(r, completionUpdate(fn)) => Precedes(r, T("return", fn), completionUpdate(fn))

\* C28 as stated: every stage of a real request is bracketed, and the completion update of a
\* stage is never emitted when a collaborator of that stage failed.
C28_NoCompletionAfterCollaboratorFailure ==
    \A r \in Reqs : \A k \in DOMAIN StageOrder :
        LET fn == StageOrder[k]
        IN ~local[r].demoMode =>
           /\ Bracketed(r, fn)
           /\ svcFailed[r] \cap ServicesOf(fn) # {} => ~Has(r, completionUpdate(fn))

\* C28 amended: every stage of a real request is bracketed, and the completion update of a stage
\* is never emitted when the call of that stage threw.
C28_NoCompletionAfterThrow ==
    \A r \in Reqs : \A k \in DOMAIN StageOrder :
        LET fn == StageOrder[k]
        IN ~local[r].demoMode =>
           /\ Bracketed(r, fn)
           /\ Has(r, T("throw", fn)) => ~Has(r, completionUpdate(fn))

\* a request that went through three stages and whose transcription threw
C28_Witness ==
    /\ Finished(1)
    /\ Has(1, T("throw", "transcribeVideo"))
    /\ Precedes(1, startUpdate("transcribeVideo"), T("invoke", "transcribeVideo"))
    /\ Precedes(1, T("return", "extractFrames"), completionUpdate("extractFrames"))

\* C29: whatever a request removes (uploaded file, working directory) it has
\* removed before its response is sent, on a stage failure as on success.
C29_CleanupBeforeResponse ==
    \A r \in Reqs : \A i, j \in DOMAIN trace[r] :
        (trace[r][i].ev = "cleanup" /\ trace[r][j].ev = "respond") => i < j

\* C30: a request one of whose removals failed is answered as it would have
\* been had the removal succeeded: a demo request with its result, a real one
\* with its result or with the error of the stage that threw.
C30_CleanupFailureHarmless ==
    \A r \in Reqs :
        (Finished(r) /\ RemovalFailed(r))
            => IF local[r].demoMode
               THEN response[r].status = 200
               ELSE \/ response[r].status = 200
                    \/ \E k \in DOMAIN StageOrder :
                           /\ Has(r, T("throw", StageOrder[k]))
                           /\ response[r] = errorResponse(StageOrder[k])

\* C31: when a request reaches its end, Completed (a result) or Failed (a stage
\* error), the registry holds no entry for the request's session id.
C31_SessionDestroyedOnCompletion ==
    [][\A r \in Reqs :
           (pc[r] \notin {"idle", "done"} /\ pc'[r] = "done"
                /\ response'[r].status \in {200, 500})
               => local'[r].sessionId \notin DOMAIN activeSessions']_vars

\* the updates of the demo path as C32 lists them
DemoSchedule ==
    <<P(0, 5), P(1, 20), P(2, 40), P(3, 60), P(4, 80), P(5, 90), P(6, 95), P(6, 100)>>

\* C32: a demo request emits the updates of the demo schedule in that order,
\* all of them by the time it has responded, and none after its response.
C32_DemoSchedule ==
    \A r \in Reqs :
        (local[r].demoMode /\ req[r].file)
            => /\ IsPrefix(Updates(r), DemoSchedule)
               /\ Finished(r) => Updates(r) = DemoSchedule
               /\ \A i, j \in DOMAIN trace[r] :
                      (trace[r][i].ev = "progress" /\ trace[r][j].ev = "respond") => i < j

\* C33: when the QA-generation service failed, the request is not aborted: it
\* is assembled and answered with a result whose qa_pairs is the one fallback
\* pair (a question naming the error, one snippet).
C33_QAFailureAbsorbed ==
    \A r \in Reqs :
        "generateQAPairs" \in svcFailed[r]
            => /\ Finished(r) /\ response[r].status = 200
               /\ ~Has(r, T("throw", "generateQAPairs"))
               /\ Precedes(r, T("return", "generateQAPairs"), T("assemble", "result"))
               /\ LET qa == response[r].body.qa_pairs
                  IN /\ Len(qa) = 1
                     /\ qa[1].question = "Error generating questions"
                     /\ Len(qa[1].relevantSnippets) = 1

\* a request whose QA-generation service failed and that got its result
C33_Witness ==
    /\ "generateQAPairs" \in svcFailed[1]
    /\ response[1].status = 200
    /\ Has(1, P(6, 100))

\* channel c is connected and no later channel subscribed to its session id
LatestSubscriber(c) ==
    /\ chans[c].open
    /\ \A d \in DOMAIN chans : d > c => chans[d].sessionId # chans[c].sessionId

\* C34: a connected channel that is the most recent subscriber of its session
\* id is the registered channel of that id, whatever earlier subscribers of the
\* id have done since.
C34_LatestSubscriberStaysRegistered ==
    \A c \in DOMAIN chans :
        LatestSubscriber(c)
            => /\ chans[c].sessionId \in DOMAIN activeSessions
               /\ activeSessions[chans[c].sessionId] = c

\* C35: when the overall-sentiment service failed, analyzeSentiment has not
\* thrown but returned the fallback record (neutral, 'unknown', confidence 0, a
\* summary naming the error); QA generation is called next and the request ends
\* with a result carrying that record.
C35_SentimentFailureAbsorbed ==
    \A r \in Reqs :
        "analyzeSentiment" \in svcFailed[r]
            => /\ ~Has(r, T("throw", "analyzeSentiment"))
               /\ local[r].sentiment.overall_sentiment = "neutral"
               /\ local[r].sentiment.mood_keywords = <<"unknown">>
               /\ local[r].sentiment.confidence = 0
               /\ local[r].sentiment.short_summary = "Error analyzing sentiment: apiError"
               /\ Precedes(r, T("return", "analyzeSentiment"), T("invoke", "generateQAPairs"))
               /\ Finished(r) => /\ response[r].status = 200
                                 /\ response[r].body.sentiment = local[r].sentiment

\* a request whose overall-sentiment service failed and that got its result
C35_Witness ==
    /\ "analyzeSentiment" \in svcFailed[1]
    /\ Finished(1)
    /\ response[1].status = 200
    /\ Has(1, T("return", "generateQAPairs"))

\* C36: when the segment-sentiment service failed, analyzeSegmentSentiments has
\* returned one record per segment, in the segments' order, with the segment's
\* id, 'neutral' and ['unknown'], and every enriched segment is neutral/unknown.
C36_SegmentFailureFallback ==
    \A r \in Reqs :
        "analyzeSegmentSentiments" \in svcFailed[r]
            => /\ Len(local[r].segmentSentiments) = Len(RawSegments(r))
               /\ \A i \in DOMAIN RawSegments(r) :
                      /\ local[r].segmentSentiments[i]
                             = SentRec(RawSegments(r)[i].id, "neutral", <<"unknown">>)
                      /\ local[r].enrichedSegments[i].sentiment = "neutral"
                      /\ local[r].enrichedSegments[i].mood_keywords = <<"unknown">>
               /\ Len(local[r].enrichedSegments) = Len(RawSegments(r))

\* a transcript of two segments whose sentiment service failed
C36_Witness ==
    /\ "analyzeSegmentSentiments" \in svcFailed[1]
    /\ Len(RawSegments(1)) = 2
    /\ Len(local[1].segmentSentiments) = 2
    /\ Enriched(1)

\* the detections the sampled frames of run a returned, frame after frame
DetectionsOf(a) == flattenDetections(a.detectionsByFrame)

\* the run has had the answer of every sampled frame
AllFramesAnswered(a) ==
    a.status \in {"returned", "thrown"} /\ Len(a.detectionsByFrame) = Len(a.sampledFrames)

\* C37: once every sampled frame is answered the aggregation returns, whatever
\* the names are, one summary per distinct lower-cased name, no two with the
\* same name, and as many frames entries in all as detections were returned.
C37_GroupingLosesNothing ==
    \A r \in Reqs :
        AllFramesAnswered(agg[r])
            => /\ agg[r].status = "returned"
               /\ LET out == agg[r].result
                      dets == DetectionsOf(agg[r])
                  IN /\ {out[k].name : k \in DOMAIN out}
                            = {toLowerCase(dets[k].obj.name) : k \in DOMAIN dets}
                     /\ \A i, j \in DOMAIN out : i # j => out[i].name # out[j].name
                     /\ SumSeq([k \in DOMAIN out |-> Len(out[k].frames)]) = Len(dets)

\* the same, for the runs none of whose detections makes the grouping throw
GroupingLosesNothingOfPlainNames ==
    \A r \in Reqs :
        (AllFramesAnswered(agg[r]) /\ ~aggregationThrows(agg[r].detectionsByFrame))
            => /\ agg[r].status = "returned"
               /\ LET out == agg[r].result
                      dets == DetectionsOf(agg[r])
                  IN /\ {out[k].name : k \in DOMAIN out}
                            = {toLowerCase(dets[k].obj.name) : k \in DOMAIN dets}
                     /\ \A i, j \in DOMAIN out : i # j => out[i].name # out[j].name
                     /\ SumSeq([k \in DOMAIN out |-> Len(out[k].frames)]) = Len(dets)

\* C38: the objects_detected list of a demo result is sorted by
\* appearance_percentage, largest first, as the list of the real pipeline is.
C38_DemoObjectsSorted ==
    \A k \in DOMAIN demoOut :
        LET objs == demoOut[k].result.objects_detected
        IN \A i, j \in DOMAIN objs :
               i < j => objs[i].appearance_percentage >= objs[j].appearance_percentage

\* C39: an update with percentage 100 is the last update of its request, and
\* a request that emitted one ends with a result: a request that ended with an
\* error has emitted none.
C39_HundredOnlyOnSuccess ==
    \A r \in Reqs : \A i \in DOMAIN Updates(r) :
        Updates(r)[i].progress = 100
            => /\ i = Len(Updates(r))
               /\ Finished(r) /\ response[r].status = 200

\* a real request and its 100% update
C39_Witness ==
    /\ Finished(1) /\ ~local[1].demoMode
    /\ response[1].status = 200
    /\ Updates(1)[Len(Updates(1))] = P(6, 100)

\* One request as in Spec with the clock standing still (the clock names the
\* working directory only), where the handler runs when it can and every awaited
\* call and every timer eventually settles. extractFrames answers with up to
\* two frames: the frame loop is skipped, entered once, or repeated.
LiveFramesOutcomes == {Failure} \cup {Ok(n) : n \in 0..2}

HandlerStep ==
    \/ HandlerStart(1)
    \/ \E o \in ProbeOutcomes, u, m \in BOOLEAN : GetVideoDurationReturn(1, o, u, m)
    \/ \E o \in AudioOutcomes, u, m \in BOOLEAN : ExtractAudioReturn(1, o, u, m)
    \/ \E o \in LiveFramesOutcomes, u, m \in BOOLEAN : ExtractFramesReturn(1, o, u, m)
    \/ \E o \in TranscribeOutcomes, u, m \in BOOLEAN : TranscribeVideoReturn(1, o, u, m)
    \/ \E o \in SpecSegmentSentimentOutcomes, f, u, m \in BOOLEAN :
           AnalyzeSegmentSentimentsReturn(1, o, f, u, m)
    \/ \E o \in SpecDetectOutcomes, f, u, m \in BOOLEAN :
           DetectObjectsInFrameReturn(1, o, f, u, m)
    \/ \E o \in OverallSentimentOutcomes : AnalyzeSentimentReturn(1, o)
    \/ \E o \in QAOutcomes, u, m \in BOOLEAN : GenerateQAPairsReturn(1, o, u, m)
    \/ DemoTimer(1)
    \/ \E u \in BOOLEAN : DemoFinish(1, u)

NextLive ==
    \/ \E q \in Requests : Upload(1, q)
    \/ HandlerStep

SpecLive == Init /\ [][NextLive]_vars /\ WF_vars(HandlerStep)

\* the request passed validation and its handler has not ended
Accepted(r) == InFlight(r) \/ pc[r] \in {"demoTimers", "demoWait"}

\* the request has ended with one response and its cleanup has been done (the
\* file and the directory are gone, or their removal was tried and failed)
Terminal(r) ==
    /\ Finished(r)
    /\ Len(EntriesOf(r, {"respond"})) = 1
    /\ response[r].status \in {200, 500}
    /\ \/ RemovalFailed(r)
       \/ r \notin uploads /\ (tmpDir[r] # Null => tmpDir[r] \notin tmpDirs)

\* the handler is suspended at an awaited call or at the demo timers
Awaiting(r) ==
    pc[r] \in Range(StageOrder) \cup {"detectObjectsInFrames", "demoTimers", "demoWait"}

\* C40: when every awaited call eventually settles, a request that passed
\* validation eventually has ended with exactly one response and its cleanup
\* done; every request the handler receives eventually ends; a request never
\* sends a second response, and one that has started and not ended is suspended
\* at an awaited call.
C40_EventuallyTerminal ==
    /\ \A r \in Reqs : Accepted(r) ~> Terminal(r)
    /\ \A r \in Reqs : (pc[r] = "handler") ~> Finished(r)
    /\ [](\A r \in Reqs : /\ Len(EntriesOf(r, {"respond"})) <= 1
                          /\ pc[r] \notin {"idle", "handler", "done"} => Awaiting(r))

\* a request that went through the stages and has ended with its result
C40_Witness ==
    /\ Terminal(1)
    /\ Has(1, T("return", "generateQAPairs"))
    /\ response[1].status = 200

====
